---------------------------- MODULE Spec2Model ----------------------------
(***************************************************************************)
(* A model of the configDiff resolution pipeline:                          *)
(*   merge_env_configs -> resolve_refs -> merge_yaml_with_merge_keys ->    *)
(*   service extraction -> substitute_placeholders                         *)
(* (process_config_package), and of the three resolution functions called  *)
(* on their own.                                                           *)
(*                                                                         *)
(* Configuration trees are tagged records [t, v]:                          *)
(*   "map"  v = sequence of [k, val] pairs (a Python dict, insertion order)*)
(*   "seq"  v = sequence of trees          (a Python list)                 *)
(*   "str"  v = sequence of atoms          (a Python str)                  *)
(*   "int"  v = <<atom>>, the atom being the number's decimal text         *)
(*   "null" v = <<>>                       (None)                          *)
(* An atom is a run of characters none of which is special to the code     *)
(* that reads the string, or one special character on its own               *)
(* ("{", "}", ".", " ", "#", "/", "'").                                    *)
(***************************************************************************)
EXTENDS Integers, Sequences, FiniteSets, TLC

VARIABLES
    call,                          \* the function the caller invoked
    pc,                            \* the position in that call
    disk,                          \* [root |-> [relative path |-> document or Directory]]
    merged_config_map,             \* dict: logical path -> location [root, path]
    main_config_file,              \* base_file_relative_path / main_config_file
    service_name_to_extract,
    visited_refs,                  \* resolve_refs' set of ref_key markers
    resolved_data_from_main_file,  \* resolve_refs' return value; the merge stage's data
    data_after_merge_keys,         \* merge_yaml_with_merge_keys' return value
    target_service_config,         \* the selected entry; substitute's data_to_process
    records_context,               \* substitute's records_context
    max_iterations,
    i,                             \* number of passes substitute_placeholders has run
    processed_data,                \* substitute_placeholders' working tree
    result,                        \* what the call returned or raised
    walk,                          \* _resolve_refs_recursive's frames, when it is run step by step
    calls,                         \* the calls of resolve_refs that have ended before this one
    properties_content             \* convert_properties_to_dict's text, a string of atoms

vars == <<call, pc, disk, merged_config_map, main_config_file,
          service_name_to_extract, visited_refs, resolved_data_from_main_file,
          data_after_merge_keys, target_service_config, records_context,
          max_iterations, i, processed_data, result, walk, calls,
          properties_content>>

(***************************************************************************)
(* Trees                                                                   *)
(***************************************************************************)
Str(atoms) == [t |-> "str", v |-> atoms]
Num(atom)   == [t |-> "int", v |-> <<atom>>]
Dict(pairs) == [t |-> "map", v |-> pairs]
List(items) == [t |-> "seq", v |-> items]
Null       == [t |-> "null", v |-> <<>>]
KV(k, val) == [k |-> k, val |-> val]

IsDict(x) == x.t = "map"
IsList(x) == x.t = "seq"
IsStr(x)  == x.t = "str"

\* dict operations on a sequence of pairs with unique keys
HasKeyP(pairs, key) == \E n \in 1..Len(pairs) : pairs[n].k = key
GetP(pairs, key)    == pairs[CHOOSE n \in 1..Len(pairs) : pairs[n].k = key].val
PutP(pairs, key, val) ==
    IF HasKeyP(pairs, key)
    THEN [n \in 1..Len(pairs) |->
            IF pairs[n].k = key THEN KV(key, val) ELSE pairs[n]]
    ELSE Append(pairs, KV(key, val))
PopP(pairs, key)    == SelectSeq(pairs, LAMBDA p : p.k # key)
KeysP(pairs)        == {pairs[n].k : n \in 1..Len(pairs)}

HasKey(d, key) == IsDict(d) /\ HasKeyP(d.v, key)
Get(d, key)    == GetP(d.v, key)

\* Python's dict equality: same keys, equal values, whatever the order
RECURSIVE TreeEq(_, _)
TreeEq(a, b) ==
    /\ a.t = b.t
    /\ CASE a.t = "map" ->
              /\ KeysP(a.v) = KeysP(b.v)
              /\ \A key \in KeysP(a.v) : TreeEq(GetP(a.v, key), GetP(b.v, key))
         [] a.t = "seq" ->
              /\ Len(a.v) = Len(b.v)
              /\ \A n \in 1..Len(a.v) : TreeEq(a.v[n], b.v[n])
         [] OTHER -> a.v = b.v

Reverse(s) == [n \in 1..Len(s) |-> s[Len(s) + 1 - n]]

\* what a call hands back
Returned(val)   == [ok |-> TRUE, val |-> val]
Raised(exc, why, info) == [ok |-> FALSE, exc |-> exc, why |-> why, info |-> info]
NoResult        == [ok |-> FALSE, exc |-> "none", why |-> "none", info |-> <<>>]

(***************************************************************************)
(* merge_key_processor.py                                                  *)
(***************************************************************************)
MERGE_KEY == "<<:"

\* lines 122-128 without the recursion of line 125: the source's value always
\* replaces the target's
OverrideDicts(target, source) ==
    [n \in 1..Len(target) |->
        IF HasKeyP(source, target[n].k)
        THEN KV(target[n].k, GetP(source, target[n].k)) ELSE target[n]]
    \o SelectSeq(source, LAMBDA entry : ~HasKeyP(target, entry.k))
\* lines 110-129, on the items of the two dicts
RECURSIVE _deep_merge_dicts(_, _)
_deep_merge_dicts(target, source) ==
    IF source = <<>> THEN target
    ELSE LET key == Head(source).k
             value_from_source == Head(source).val
             merged ==
                 IF /\ HasKeyP(target, key)
                    /\ IsDict(GetP(target, key))
                    /\ IsDict(value_from_source)
                 THEN PutP(target, key,
                           Dict(_deep_merge_dicts(GetP(target, key).v,
                                                 value_from_source.v)))
                 ELSE PutP(target, key, value_from_source)
         IN _deep_merge_dicts(merged, Tail(source))

\* line 52: for item_in_list in reversed(merge_sources)
MergeSourcesForward(merge_sources) == merge_sources
MergeSourcesOrder(merge_sources) == Reverse(merge_sources)

\* lines 51-76: fold the fragments into base_for_merge; a fragment that is
\* not a dict raises
RECURSIVE FoldMergeSources(_, _)
FoldMergeSources(base_for_merge, items) ==
    IF items = <<>> THEN Returned(base_for_merge)
    ELSE IF ~IsDict(Head(items))
         THEN Raised("ValueError", "merge_item_not_dict", <<>>)
         ELSE FoldMergeSources(_deep_merge_dicts(base_for_merge, Head(items).v),
                               Tail(items))

\* lines 78-81: the sibling keys go on top of the folded fragments
SiblingsUnder(base_for_merge, data_copy) == _deep_merge_dicts(data_copy, base_for_merge)
SiblingsOnTop(base_for_merge, data_copy) == _deep_merge_dicts(base_for_merge, data_copy)

\* lines 34-81: the mapping after its own `<<:` has been composed
ComposeMergeKey(pairs) ==
    IF ~HasKeyP(pairs, MERGE_KEY) THEN Returned(pairs)
    ELSE LET merge_sources == GetP(pairs, MERGE_KEY)
             data_copy == PopP(pairs, MERGE_KEY)
         IN IF ~IsList(merge_sources)
            THEN Raised("ValueError", "merge_sources_not_list", <<>>)
            ELSE LET folded == FoldMergeSources(<<>>, MergeSourcesOrder(merge_sources.v))
                 IN IF ~folded.ok THEN folded
                    ELSE Returned(SiblingsOnTop(folded.val, data_copy))

RECURSIVE merge_yaml_with_merge_keys(_), MergeDictValues(_, _), MergeListItems(_, _)
\* lines 85-93: processed_dict[key] = merge_yaml_with_merge_keys(value, ...)
MergeDictValues(done, rest) ==
    IF rest = <<>> THEN Returned(Dict(done))
    ELSE LET r == merge_yaml_with_merge_keys(Head(rest).val)
         IN IF ~r.ok THEN r
            ELSE MergeDictValues(Append(done, KV(Head(rest).k, r.val)), Tail(rest))

\* lines 95-106
MergeListItems(done, rest) ==
    IF rest = <<>> THEN Returned(List(done))
    ELSE LET r == merge_yaml_with_merge_keys(Head(rest))
         IN IF ~r.ok THEN r
            ELSE MergeListItems(Append(done, r.val), Tail(rest))

merge_yaml_with_merge_keys(data) ==
    IF IsDict(data)
    THEN LET composed == ComposeMergeKey(data.v)
         IN IF ~composed.ok THEN composed
            ELSE MergeDictValues(<<>>, composed.val)
    ELSE IF IsList(data) THEN MergeListItems(<<>>, data.v)
    ELSE Returned(data)

\* ---- the same function on Python's objects: a dict or list is an object of
\* the heap, named by its address [t |-> "at", v |-> n]; a dict holds
\* <<[k, val]>> and a list <<items>>, whose values are scalars or addresses.
\* Assignments into a dict or list change the object for everyone who holds it.

\* the caller's tree as objects: every dict and list is an object of its own
RECURSIVE Store(_, _)
Store(heap, tree) ==
    IF ~(IsDict(tree) \/ IsList(tree)) THEN [heap |-> heap, x |-> tree]
    ELSE LET RECURSIVE StoreItems(_, _, _)
             StoreItems(h, done, rest) ==
                 IF rest = <<>> THEN [heap |-> h, v |-> done]
                 ELSE LET c == Store(h, IF IsDict(tree) THEN Head(rest).val ELSE Head(rest))
                      IN StoreItems(c.heap,
                                    Append(done, IF IsDict(tree)
                                                 THEN KV(Head(rest).k, c.x) ELSE c.x),
                                    Tail(rest))
             r == StoreItems(heap, <<>>, tree.v)
         IN [heap |-> Append(r.heap, [t |-> tree.t, v |-> r.v]),
             x |-> [t |-> "at", v |-> Len(r.heap) + 1]]

\* the tree an object holds now
RECURSIVE Fetch(_, _)
Fetch(heap, x) ==
    IF x.t # "at" THEN x
    ELSE LET obj == heap[x.v]
         IN IF obj.t = "map"
            THEN Dict([n \in 1..Len(obj.v) |-> KV(obj.v[n].k, Fetch(heap, obj.v[n].val))])
            ELSE List([n \in 1..Len(obj.v) |-> Fetch(heap, obj.v[n])])

\* the object itself in place of a copy of it
NoCopy(heap, x) == [heap |-> heap, x |-> x]
\* copy.deepcopy (lines 32 and 128): new objects all the way down
RECURSIVE deepcopy(_, _)
deepcopy(heap, x) ==
    IF x.t # "at" THEN [heap |-> heap, x |-> x]
    ELSE LET obj == heap[x.v]
             RECURSIVE CopyItems(_, _, _)
             CopyItems(h, done, rest) ==
                 IF rest = <<>> THEN [heap |-> h, v |-> done]
                 ELSE LET c == deepcopy(h, IF obj.t = "map" THEN Head(rest).val ELSE Head(rest))
                      IN CopyItems(c.heap,
                                   Append(done, IF obj.t = "map"
                                                THEN KV(Head(rest).k, c.x) ELSE c.x),
                                   Tail(rest))
             r == CopyItems(heap, <<>>, obj.v)
         IN [heap |-> Append(r.heap, [t |-> obj.t, v |-> r.v]),
             x |-> [t |-> "at", v |-> Len(r.heap) + 1]]

\* lines 110-129 on the objects at the addresses target and source: target is
\* changed in place
RECURSIVE DeepMergeOnHeap(_, _, _)
DeepMergeOnHeap(heap, target, source) ==
    LET RECURSIVE Items(_, _)
        Items(h, rest) ==
            IF rest = <<>> THEN h
            ELSE LET key == Head(rest).k
                     value_from_source == Head(rest).val
                     held == h[target].v
                 IN IF /\ HasKeyP(held, key)
                       /\ GetP(held, key).t = "at"
                       /\ h[GetP(held, key).v].t = "map"
                       /\ value_from_source.t = "at"
                       /\ h[value_from_source.v].t = "map"
                    THEN Items(DeepMergeOnHeap(h, GetP(held, key).v, value_from_source.v),
                               Tail(rest))
                    ELSE LET c == deepcopy(h, value_from_source)
                         IN Items([c.heap EXCEPT ![target].v = PutP(@, key, c.x)],
                                  Tail(rest))
    IN Items(heap, heap[source].v)

\* lines 31-108 on the object x: what is returned or raised, and the heap then
RECURSIVE MergeKeysOnHeap(_, _)
MergeKeysOnHeap(heap, x) ==
    LET Failed(h, why) == [ok |-> FALSE, heap |-> h, exc |-> "ValueError",
                           why |-> why, info |-> <<>>]
        \* lines 85-93 and 98-106: the values one after another into a new object
        RECURSIVE Values(_, _, _, _)
        Values(h, kind, done, rest) ==
            IF rest = <<>>
            THEN [ok |-> TRUE, heap |-> Append(h, [t |-> kind, v |-> done]),
                  x |-> [t |-> "at", v |-> Len(h) + 1]]
            ELSE LET r == MergeKeysOnHeap(h, IF kind = "map" THEN Head(rest).val
                                                             ELSE Head(rest))
                 IN IF ~r.ok THEN r
                    ELSE Values(r.heap, kind,
                                Append(done, IF kind = "map"
                                             THEN KV(Head(rest).k, r.x) ELSE r.x),
                                Tail(rest))
        \* lines 52-76: base_for_merge takes the fragments, the last one first
        RECURSIVE Fold(_, _, _)
        Fold(h, base_for_merge, items) ==
            IF items = <<>> THEN [ok |-> TRUE, heap |-> h]
            ELSE IF ~(Head(items).t = "at" /\ h[Head(items).v].t = "map")
                 THEN Failed(h, "merge_item_not_dict")
                 ELSE Fold(DeepMergeOnHeap(h, base_for_merge, Head(items).v),
                           base_for_merge, Tail(items))
    IN IF x.t = "at" /\ heap[x.v].t = "map"
       THEN LET copied == deepcopy(heap, x)
                data_copy == copied.x.v
            IN IF ~HasKeyP(copied.heap[data_copy].v, MERGE_KEY)
               THEN Values(copied.heap, "map", <<>>, copied.heap[data_copy].v)
               ELSE LET merge_sources == GetP(copied.heap[data_copy].v, MERGE_KEY)
                        popped == [copied.heap EXCEPT ![data_copy].v = PopP(@, MERGE_KEY)]
                    IN IF ~(merge_sources.t = "at" /\ popped[merge_sources.v].t = "seq")
                       THEN Failed(popped, "merge_sources_not_list")
                       ELSE LET base_for_merge == Len(popped) + 1
                                folded == Fold(Append(popped, [t |-> "map", v |-> <<>>]),
                                               base_for_merge,
                                               MergeSourcesOrder(popped[merge_sources.v].v))
                            IN IF ~folded.ok THEN folded
                               ELSE LET merged == DeepMergeOnHeap(folded.heap,
                                                                  base_for_merge, data_copy)
                                    IN Values(merged, "map", <<>>, merged[base_for_merge].v)
       ELSE IF x.t = "at"
       THEN Values(heap, "seq", <<>>, heap[x.v].v)
       ELSE [ok |-> TRUE, heap |-> heap, x |-> x]

(***************************************************************************)
(* placeholder_substitutor.py                                              *)
(***************************************************************************)
\* the first index at or after q that holds "}", or Len(s) + 1
RECURSIVE RunEnd(_, _)
RunEnd(s, q) ==
    IF q > Len(s) \/ s[q] = "}" THEN q ELSE RunEnd(s, q + 1)

\* r'\{\{([^}]+)\}\}' matched at position p: "{{", a non-empty run without "}",
\* then "}}"
MatchAt(s, p) ==
    /\ p + 1 <= Len(s)
    /\ s[p] = "{"
    /\ s[p + 1] = "{"
    /\ LET e == RunEnd(s, p + 2)
       IN /\ e > p + 2
          /\ e + 1 <= Len(s)
          /\ s[e + 1] = "}"
MatchEnd(s, p) == RunEnd(s, p + 2) + 1

\* re.finditer: the non-overlapping matches from left to right, as [from, to]
RECURSIVE FindIter(_, _)
FindIter(s, p) ==
    IF p > Len(s) THEN <<>>
    ELSE IF MatchAt(s, p)
         THEN <<[from |-> p, to |-> MatchEnd(s, p)]>> \o FindIter(s, MatchEnd(s, p) + 1)
         ELSE FindIter(s, p + 1)

Group0(s, m) == SubSeq(s, m.from, m.to)            \* the whole token
Group1(s, m) == SubSeq(s, m.from + 2, m.to - 2)    \* the text between the braces

\* str.strip(): the space atom is the model's whitespace
RECURSIVE LStrip(_)
LStrip(s) == IF s # <<>> /\ Head(s) = " " THEN LStrip(Tail(s)) ELSE s
Strip(s) == Reverse(LStrip(Reverse(LStrip(s))))

\* str.split('.'): the segments between the "." atoms
RECURSIVE SplitDots(_, _)
SplitDots(cur, s) ==
    IF s = <<>> THEN <<cur>>
    ELSE IF Head(s) = "." THEN <<cur>> \o SplitDots(<<>>, Tail(s))
         ELSE SplitDots(Append(cur, Head(s)), Tail(s))

\* str.replace(old, new): every non-overlapping occurrence, left to right
RECURSIVE Replace(_, _, _)
Replace(s, old, new) ==
    IF Len(s) < Len(old) THEN s
    ELSE IF SubSeq(s, 1, Len(old)) = old
         THEN new \o Replace(SubSeq(s, Len(old) + 1, Len(s)), old, new)
         ELSE <<Head(s)>> \o Replace(Tail(s), old, new)

\* repr() and str() of a loaded value
RECURSIVE Repr(_), ReprPairs(_), ReprItems(_)
ReprPairs(pairs) ==
    IF pairs = <<>> THEN <<>>
    ELSE <<"'", Head(pairs).k, "'", ":", " ">> \o Repr(Head(pairs).val)
         \o (IF Len(pairs) > 1 THEN <<",", " ">> ELSE <<>>) \o ReprPairs(Tail(pairs))
ReprItems(items) ==
    IF items = <<>> THEN <<>>
    ELSE Repr(Head(items))
         \o (IF Len(items) > 1 THEN <<",", " ">> ELSE <<>>) \o ReprItems(Tail(items))
Repr(x) ==
    CASE x.t = "str"  -> <<"'">> \o x.v \o <<"'">>
      [] x.t = "int"  -> x.v
      [] x.t = "null" -> <<"None">>
      [] x.t = "map"  -> <<"{">> \o ReprPairs(x.v) \o <<"}">>
      [] x.t = "seq"  -> <<"[">> \o ReprItems(x.v) \o <<"]">>
PyStr(x) == IF x.t = "str" THEN x.v ELSE Repr(x)

\* _get_value_by_path: NOT_FOUND is the sentinel. A dict key of the model is one
\* atom, so a segment of several atoms, or of none, is a key no dict holds.
NOT_FOUND == [t |-> "_NOT_FOUND_SENTINEL", v |-> <<>>]
RECURSIVE WalkKeys(_, _)
WalkKeys(current_level, keys) ==
    IF keys = <<>> THEN current_level
    ELSE IF IsDict(current_level) /\ Len(Head(keys)) = 1
            /\ HasKeyP(current_level.v, Head(keys)[1])
         THEN WalkKeys(GetP(current_level.v, Head(keys)[1]), Tail(keys))
         ELSE NOT_FOUND
_get_value_by_path(data_dict, path_string) ==
    WalkKeys(data_dict, SplitDots(<<>>, path_string))

\* line 178: new_s = new_s.replace(match.group(0), replacement)
ReplaceToken(new_s, token, replacement) == Replace(new_s, token, replacement)

\* lines 180-183 skipped: a token that is not found stays in place
OnNotFoundSkip(changed, new_s, placeholder_key) ==
    [ok |-> TRUE, changed |-> changed, val |-> new_s, skip |-> TRUE]
\* lines 180-183: raise PlaceholderNotFoundError(placeholder_key)
OnNotFound(changed, new_s, placeholder_key) ==
    Raised("PlaceholderNotFoundError", "not_found", placeholder_key)

\* lines 169-183: the loop over the matches found in the original s
RECURSIVE SubstMatches(_, _, _, _, _)
SubstMatches(s, matches, changed, new_s, records) ==
    IF matches = <<>> THEN [ok |-> TRUE, changed |-> changed, val |-> new_s]
    ELSE LET placeholder_key == Strip(Group1(s, Head(matches)))
             value == _get_value_by_path(records, placeholder_key)
         IN IF value # NOT_FOUND
            THEN SubstMatches(s, Tail(matches), TRUE,
                              ReplaceToken(new_s, Group0(s, Head(matches)), PyStr(value)),
                              records)
            ELSE LET r == OnNotFound(changed, new_s, placeholder_key)
                 IN IF r.ok
                    THEN SubstMatches(s, Tail(matches), changed, new_s, records)
                    ELSE r

\* lines 166-185 with `changed = new_s != s` in place of line 179
ChangedIfDifferent(s, records) ==
    LET r == SubstMatches(s, FindIter(s, 1), FALSE, s, records)
    IN IF r.ok THEN [ok |-> TRUE, changed |-> (r.val # s), val |-> r.val] ELSE r
\* lines 164-185
_substitute_in_string(s, records) ==
    SubstMatches(s, FindIter(s, 1), FALSE, s, records)

RECURSIVE _substitute_in_block_one_pass(_, _), SubstDictItems(_, _, _, _),
          SubstListItems(_, _, _, _)
\* lines 128-135 with the entries of new_dict in the opposite order
SubstDictItemsLastFirst(done, rest, changed, records) ==
    IF rest = <<>> THEN [ok |-> TRUE, changed |-> changed, val |-> Dict(done)]
    ELSE LET r == _substitute_in_block_one_pass(Head(rest).val, records)
         IN IF ~r.ok THEN r
            ELSE SubstDictItems(<<KV(Head(rest).k, r.val)>> \o done, Tail(rest),
                                changed \/ r.changed, records)
\* lines 128-135
SubstDictItems(done, rest, changed, records) ==
    IF rest = <<>> THEN [ok |-> TRUE, changed |-> changed, val |-> Dict(done)]
    ELSE LET r == _substitute_in_block_one_pass(Head(rest).val, records)
         IN IF ~r.ok THEN r
            ELSE SubstDictItems(Append(done, KV(Head(rest).k, r.val)), Tail(rest),
                                changed \/ r.changed, records)
\* lines 136-143
SubstListItems(done, rest, changed, records) ==
    IF rest = <<>> THEN [ok |-> TRUE, changed |-> changed, val |-> List(done)]
    ELSE LET r == _substitute_in_block_one_pass(Head(rest), records)
         IN IF ~r.ok THEN r
            ELSE SubstListItems(Append(done, r.val), Tail(rest),
                                changed \/ r.changed, records)
_substitute_in_block_one_pass(data, records) ==
    IF IsStr(data)
    THEN LET r == _substitute_in_string(data.v, records)
         IN IF ~r.ok THEN r
            ELSE [ok |-> TRUE, changed |-> r.changed, val |-> Str(r.val)]
    ELSE IF IsDict(data) THEN SubstDictItems(<<>>, data.v, FALSE, records)
    ELSE IF IsList(data) THEN SubstListItems(<<>>, data.v, FALSE, records)
    ELSE [ok |-> TRUE, changed |-> FALSE, val |-> data]

\* every string value of a tree, in the order the walkers visit them
RECURSIVE StringsOf(_), StringsOfItems(_)
StringsOfItems(items) ==
    IF items = <<>> THEN <<>>
    ELSE StringsOf(Head(items)) \o StringsOfItems(Tail(items))
StringsOf(data) ==
    CASE data.t = "str" -> <<data.v>>
      [] data.t = "map" -> StringsOfItems([n \in 1..Len(data.v) |-> data.v[n].val])
      [] data.t = "seq" -> StringsOfItems(data.v)
      [] OTHER -> <<>>

\* lines 89-97
_contains_placeholders(data) ==
    \E n \in 1..Len(StringsOf(data)) : FindIter(StringsOf(data)[n], 1) # <<>>

\* lines 99-114: the first token of the first string that has one
_find_first_placeholder(data) ==
    LET strs == StringsOf(data)
        n == CHOOSE n \in 1..Len(strs) :
                 /\ FindIter(strs[n], 1) # <<>>
                 /\ \A m \in 1..(n - 1) : FindIter(strs[m], 1) = <<>>
    IN Group0(strs[n], Head(FindIter(strs[n], 1)))

\* lines 77-86 without the check for remaining placeholders
ExhaustedReturns(data) == Returned(data)
\* lines 77-86 raising whenever the loop has used up its budget
ExhaustedRaises(data) ==
    Raised("CircularPlaceholderDependencyError", "max_iterations", <<>>)
\* lines 77-86: after max_iterations passes, a remaining placeholder raises
ExhaustedOutcome(data) ==
    IF _contains_placeholders(data)
    THEN Raised("CircularPlaceholderDependencyError", "max_iterations",
                _find_first_placeholder(data))
    ELSE Returned(data)

(***************************************************************************)
(* ref_resolver.py                                                         *)
(*                                                                         *)
(* A logical path is the sequence of its segments (<<"b", "c.yaml">> is    *)
(* b/c.yaml). The atoms of a $ref value are path segments and the          *)
(* characters "/", "#", "'" and the double quote. A loaded document is the *)
(* tree the YAML loader returns for the file.                              *)
(***************************************************************************)
REF_KEY == "$ref"
YamlFiles == {"resources.yaml", "a.yaml", "c.yaml", "d.yaml"}

Loc(root, path) == [root |-> root, path |-> path]
FileOf(loc)     == disk[loc.root][loc.path]
\* `path in merged_config_map`, merged_config_map[path], list(merged_config_map.keys())
InMap(path)     == HasKeyP(merged_config_map, path)
MapGet(path)    == GetP(merged_config_map, path)
MapKeys         == [n \in 1..Len(merged_config_map) |-> merged_config_map[n].k]

\* the position of the first atom equal to c, or 0
FirstIndex(s, c) ==
    IF \E n \in 1..Len(s) : s[n] = c
    THEN CHOOSE n \in 1..Len(s) : s[n] = c /\ \A m \in 1..(n - 1) : s[m] # c
    ELSE 0

\* str.strip('"\''): quote characters off both ends
IsQuote(c) == c = "'" \/ c = "\""
RECURSIVE LStripQuotes(_)
LStripQuotes(s) == IF s # <<>> /\ IsQuote(Head(s)) THEN LStripQuotes(Tail(s)) ELSE s
StripQuotes(s) == Reverse(LStripQuotes(Reverse(LStripQuotes(s))))

\* str.split('/'): each piece is the atoms between two slashes
RECURSIVE SplitSlash(_, _)
SplitSlash(cur, s) ==
    IF s = <<>> THEN <<cur>>
    ELSE IF Head(s) = "/" THEN <<cur>> \o SplitSlash(<<>>, Tail(s))
         ELSE SplitSlash(Append(cur, Head(s)), Tail(s))

\* a path segment is one atom; the empty piece is the empty name
SegName(piece) == IF piece = <<>> THEN "" ELSE piece[1]
Segments(atoms) == [n \in 1..Len(SplitSlash(<<>>, atoms)) |->
                        SegName(SplitSlash(<<>>, atoms)[n])]

\* os.path.dirname of a logical path
Dirname(path) == SubSeq(path, 1, Len(path) - 1)

\* os.path.normpath's loop over the components (posixpath)
RECURSIVE NormComps(_, _, _)
NormComps(new_comps, comps, initial_slashes) ==
    IF comps = <<>> THEN new_comps
    ELSE LET comp == Head(comps)
         IN IF comp = "" \/ comp = "."
            THEN NormComps(new_comps, Tail(comps), initial_slashes)
            ELSE IF \/ comp # ".."
                    \/ (~initial_slashes /\ new_comps = <<>>)
                    \/ (new_comps # <<>> /\ new_comps[Len(new_comps)] = "..")
                 THEN NormComps(Append(new_comps, comp), Tail(comps), initial_slashes)
                 ELSE IF new_comps # <<>>
                      THEN NormComps(SubSeq(new_comps, 1, Len(new_comps) - 1),
                                     Tail(comps), initial_slashes)
                      ELSE NormComps(new_comps, Tail(comps), initial_slashes)

\* line 161, kept at the base file's directory (the root) at every hop
DirOfBaseFile(current_file_path_for_ref_resolution) == <<>>
\* line 161: dir_of_current_file
DirOfCurrentFile(current_file_path_for_ref_resolution) ==
    Dirname(current_file_path_for_ref_resolution)

\* lines 156-157 with the base file in place of the current walk context
ReferencedFileOfBase(ref_file_part, current_file_path_for_ref_resolution) ==
    IF ref_file_part = <<>>
    THEN [abs |-> FALSE, comps |-> main_config_file]
    ELSE LET part == Segments(ref_file_part)
             is_abs == part[1] = "" /\ Len(part) > 1
             joined == IF is_abs THEN part
                       ELSE DirOfCurrentFile(current_file_path_for_ref_resolution) \o part
             norm == NormComps(<<>>, joined, is_abs)
         IN IF ~is_abs /\ norm = <<>>
            THEN [abs |-> FALSE, comps |-> current_file_path_for_ref_resolution]
            ELSE [abs |-> is_abs, comps |-> norm]
\* lines 156-167: the logical path a file part names, as [abs, comps]; an
\* absolute path (abs) is no key of the map
ReferencedFile(ref_file_part, current_file_path_for_ref_resolution) ==
    IF ref_file_part = <<>>
    THEN [abs |-> FALSE, comps |-> current_file_path_for_ref_resolution]
    ELSE LET part == Segments(ref_file_part)
             is_abs == part[1] = "" /\ Len(part) > 1
             joined == IF is_abs THEN part
                       ELSE DirOfCurrentFile(current_file_path_for_ref_resolution) \o part
             norm == NormComps(<<>>, joined, is_abs)
         IN IF ~is_abs /\ norm = <<>>
            THEN [abs |-> FALSE, comps |-> current_file_path_for_ref_resolution]
            ELSE [abs |-> is_abs, comps |-> norm]

\* lines 190-199: the loader chosen by the file's extension
IsSupportedFile(path) == path # <<>> /\ path[Len(path)] \in YamlFiles

\* jsonpointer.resolve_pointer (library): the pointer must start with "/"; each
\* part is a key of a dict or a decimal index into a list
Digits == <<"0", "1", "2">>
IsIndex(part) == \E n \in 1..Len(Digits) : Digits[n] = part
IndexOf(part) == CHOOSE n \in 1..Len(Digits) : Digits[n] = part
PointerFailure == [t |-> "JsonPointerException", v |-> <<>>]
RECURSIVE WalkPointer(_, _)
WalkPointer(doc, parts) ==
    IF parts = <<>> THEN doc
    ELSE LET part == Head(parts)
         IN IF IsDict(doc)
            THEN IF HasKeyP(doc.v, part)
                 THEN WalkPointer(GetP(doc.v, part), Tail(parts))
                 ELSE PointerFailure
            ELSE IF IsList(doc)
                 THEN IF IsIndex(part) /\ IndexOf(part) <= Len(doc.v)
                      THEN WalkPointer(doc.v[IndexOf(part)], Tail(parts))
                      ELSE PointerFailure
                 ELSE IF IsStr(doc)
                 THEN \* a str is a Sequence: an index in range gives one character
                      IF IsIndex(part) /\ IndexOf(part) <= Len(doc.v)
                      THEN WalkPointer(Str(<<doc.v[IndexOf(part)]>>), Tail(parts))
                      ELSE PointerFailure
                 ELSE PointerFailure
\* line 205 with a default: resolve_pointer(ref_data, pointer_part, None)
ResolvePointerOrNone(doc, pointer_part) ==
    LET parts == Segments(pointer_part)
    IN IF parts[1] # "" \/ WalkPointer(doc, Tail(parts)) = PointerFailure THEN Null
       ELSE WalkPointer(doc, Tail(parts))
resolve_pointer(doc, pointer_part) ==
    LET parts == Segments(pointer_part)
    IN IF parts[1] # "" THEN PointerFailure
       ELSE WalkPointer(doc, Tail(parts))

\* lines 130-214: (content, referenced file) or the error raised
_resolve_ref(ref_value, current_file_path_for_ref_resolution) ==
    LET hash == FirstIndex(ref_value, "#")
        ref_file_part == StripQuotes(IF hash = 0 THEN ref_value
                                     ELSE SubSeq(ref_value, 1, hash - 1))
        pointer_part == StripQuotes(IF hash = 0 THEN <<>>
                                    ELSE SubSeq(ref_value, hash + 1, Len(ref_value)))
        target == ReferencedFile(ref_file_part, current_file_path_for_ref_resolution)
    IN IF target.abs \/ ~InMap(target.comps)
       THEN Raised("RefResolutionError", "file_not_in_map",
                   [path |-> target.comps, ref |-> ref_value,
                    file |-> current_file_path_for_ref_resolution, keys |-> MapKeys])
       ELSE IF ~IsSupportedFile(MapGet(target.comps).path)
       THEN Raised("RefResolutionError", "unsupported_file_type", target.comps)
       ELSE LET ref_data == FileOf(MapGet(target.comps))
            IN IF pointer_part = <<>>
               THEN [ok |-> TRUE, val |-> ref_data, file |-> target.comps]
               ELSE LET resolved_pointer_data == resolve_pointer(ref_data, pointer_part)
                    IN IF resolved_pointer_data = PointerFailure
                       THEN Raised("RefResolutionError", "pointer_failed",
                                   [pointer |-> pointer_part, path |-> target.comps,
                                    ref |-> ref_value,
                                    file |-> current_file_path_for_ref_resolution])
                       ELSE [ok |-> TRUE, val |-> resolved_pointer_data,
                             file |-> target.comps]

\* line 87: ref_key = f"{current_file_path_for_ref_resolution}->{ref_value}"
RefKey(current_file_path_for_ref_resolution, ref_value) ==
    <<current_file_path_for_ref_resolution, ref_value>>

\* line 90 without the test: no marker is ever found
NeverRevisited(ref_key, visited) == FALSE
\* line 90: if ref_key in visited_refs
Revisited(ref_key, visited) == ref_key \in visited

\* lines 90-91 turned into a silent return of the node as it stands
OnRevisitKeepNode(data, ref_key, visited) ==
    [ok |-> TRUE, val |-> data, visited |-> visited]
\* lines 90-91: raise RefResolutionError(circular reference)
OnRevisit(data, ref_key, visited) ==
    [ok |-> FALSE, exc |-> "RefResolutionError", why |-> "circular",
     info |-> ref_key, visited |-> visited]

\* lines 104-109 with `return resolved_content`: the content fetched is not walked
ReturnFetched(resolved_content, referenced_file_relative_path, visited) ==
    [ok |-> TRUE, val |-> resolved_content, visited |-> visited]

\* line 84 asking for a mapping with `$ref` and nothing else
IsLoneRef(data) == HasKeyP(data.v, REF_KEY) /\ Len(data.v) = 1
\* line 84: if '$ref' in data
IsRefNode(data) == HasKeyP(data.v, REF_KEY)

\* _resolve_refs_recursive, lines 73-128, with visited_refs threaded through:
\* each returns [ok, val, visited] or the error raised with the set as it was
RECURSIVE _resolve_refs_recursive(_, _, _), ResolveDictItems(_, _, _, _),
          ResolveListItems(_, _, _, _), ResolveFetched(_, _, _)
\* lines 104-109: the content fetched is walked in the context of its own file
ResolveFetched(resolved_content, referenced_file_relative_path, visited) ==
    _resolve_refs_recursive(resolved_content, referenced_file_relative_path, visited)
\* lines 115-118
ResolveDictItems(done, rest, ctx, visited) ==
    IF rest = <<>> THEN [ok |-> TRUE, val |-> Dict(done), visited |-> visited]
    ELSE LET r == _resolve_refs_recursive(Head(rest).val, ctx, visited)
         IN IF ~r.ok THEN r
            ELSE ResolveDictItems(Append(done, KV(Head(rest).k, r.val)), Tail(rest),
                                  ctx, r.visited)
\* lines 123-126
ResolveListItems(done, rest, ctx, visited) ==
    IF rest = <<>> THEN [ok |-> TRUE, val |-> List(done), visited |-> visited]
    ELSE LET r == _resolve_refs_recursive(Head(rest), ctx, visited)
         IN IF ~r.ok THEN r
            ELSE ResolveListItems(Append(done, r.val), Tail(rest), ctx, r.visited)

_resolve_refs_recursive(data, current_file_path_for_ref_resolution, visited) ==
    IF IsDict(data)
    THEN IF IsRefNode(data)
         THEN LET ref_value == GetP(data.v, REF_KEY)
              IN IF ~IsStr(ref_value)
                 THEN \* line 142: '#' not in ref_value, on a value that is no str
                      \* (TypeError), or line 150: .strip on a list or a dict
                      [ok |-> FALSE,
                       exc |-> IF IsDict(ref_value) \/ IsList(ref_value)
                               THEN "AttributeError" ELSE "TypeError",
                       why |-> "ref_value_not_str",
                       info |-> <<>>, visited |-> visited]
                 ELSE LET ref_key == RefKey(current_file_path_for_ref_resolution,
                                            ref_value.v)
                      IN IF Revisited(ref_key, visited)
                         THEN OnRevisit(data, ref_key, visited)
                         ELSE LET got == _resolve_ref(ref_value.v,
                                              current_file_path_for_ref_resolution)
                              IN IF ~got.ok
                                 THEN [ok |-> FALSE, exc |-> got.exc, why |-> got.why,
                                       info |-> got.info,
                                       visited |-> visited \cup {ref_key}]
                                 ELSE ResolveFetched(got.val, got.file,
                                                     visited \cup {ref_key})
         ELSE ResolveDictItems(<<>>, data.v, current_file_path_for_ref_resolution,
                               visited)
    ELSE IF IsList(data)
         THEN ResolveListItems(<<>>, data.v, current_file_path_for_ref_resolution,
                               visited)
         ELSE [ok |-> TRUE, val |-> data, visited |-> visited]

\* line 71 with the set kept from call to call (a set of the module)
KeepVisited(previous) == previous
\* line 71: visited_refs = set(), whatever an earlier call has left
FreshVisited(previous) == {}

\* the frames of _resolve_refs_recursive: a frame waits at line 104 (kind
\* "ref"), line 117 ("dict") or line 125 ("list") for the value of a nested
\* call; `now` is the call being entered or the value being returned
Frame(kind, ref_key, done, key, rest, ctx) ==
    [kind |-> kind, ref_key |-> ref_key, done |-> done, key |-> key, rest |-> rest,
     ctx |-> ctx]
IdleWalk == [stack |-> <<>>, now |-> [op |-> "idle", data |-> Null, ctx |-> <<>>]]
\* the ref_keys of the expansions in progress, the outermost first
Expanding(stack) ==
    LET refs == SelectSeq(stack, LAMBDA frame : frame.kind = "ref")
    IN [n \in 1..Len(refs) |-> refs[n].ref_key]

\* lines 216-237: the base file is loaded, then walked with an empty visited set
resolve_refs(base_file_relative_path) ==
    IF ~InMap(base_file_relative_path)
    THEN [ok |-> FALSE, exc |-> "RefResolutionError", why |-> "base_file_missing",
          info |-> base_file_relative_path, visited |-> {}]
    ELSE IF ~IsSupportedFile(MapGet(base_file_relative_path).path)
    THEN [ok |-> FALSE, exc |-> "RefResolutionError", why |-> "unsupported_file_type",
          info |-> base_file_relative_path, visited |-> {}]
    ELSE _resolve_refs_recursive(FileOf(MapGet(base_file_relative_path)),
                                 base_file_relative_path, {})

(***************************************************************************)
(* properties_parser.py                                                    *)
(***************************************************************************)
\* str.split('\n'): the lines between the "\n" atoms
RECURSIVE SplitLines(_, _)
SplitLines(cur, s) ==
    IF s = <<>> THEN <<cur>>
    ELSE IF Head(s) = "\n" THEN <<cur>> \o SplitLines(<<>>, Tail(s))
         ELSE SplitLines(Append(cur, Head(s)), Tail(s))

\* lines 45-51: current = current.setdefault(k, {}) for every segment but the
\* last, then current[keys[-1]] = value; a string met on the way has no
\* setdefault and takes no item
RECURSIVE SetNested(_, _, _)
SetNested(current, keys, value) ==
    IF Len(keys) = 1 THEN Returned(PutP(current, keys[1], Str(value)))
    ELSE LET k == Head(keys)
             next == IF HasKeyP(current, k) THEN GetP(current, k) ELSE Dict(<<>>)
         IN IF ~IsDict(next)
            THEN Raised(IF Len(keys) = 2 THEN "TypeError" ELSE "AttributeError",
                        "str_in_path", k)
            ELSE LET r == SetNested(next.v, Tail(keys), value)
                 IN IF ~r.ok THEN r ELSE Returned(PutP(current, k, Dict(r.val)))

\* lines 24-53; the keys of the mappings are the segments, strings of atoms
convert_properties_to_dict(content) ==
    LET \* line 32: ^\s*([#!].*)?$
        comment_or_empty(line) ==
            LStrip(line) = <<>> \/ Head(LStrip(line)) \in {"#", "!"}
        \* line 30: ^\s*([^=]+?)\s*=\s*(.*?)\s*$ matches when an atom stands
        \* before the first "="
        matches(line) == FirstIndex(line, "=") > 1
        \* group 1: the text before the first "=" without the whitespace
        \* around it, or its last atom when it is all whitespace
        key(line) ==
            LET before == SubSeq(line, 1, FirstIndex(line, "=") - 1)
            IN IF Strip(before) = <<>> THEN <<before[Len(before)]>> ELSE Strip(before)
        \* group 2
        value(line) == Strip(SubSeq(line, FirstIndex(line, "=") + 1, Len(line)))
        \* lines 34-51, so_far being what `result` holds
        RECURSIVE Lines(_, _)
        Lines(so_far, rest) ==
            IF rest = <<>> THEN Returned(Dict(so_far))
            ELSE IF comment_or_empty(Head(rest)) \/ ~matches(Head(rest))
                 THEN Lines(so_far, Tail(rest))
                 ELSE LET r == SetNested(so_far, SplitDots(<<>>, key(Head(rest))),
                                         value(Head(rest)))
                      IN IF ~r.ok THEN r ELSE Lines(r.val, Tail(rest))
    IN \* lines 25-26: if not properties_content.strip()
       IF \A n \in 1..Len(content) : content[n] \in {" ", "\n"}
       THEN Returned(Dict(<<>>))
       ELSE Lines(<<>>, SplitLines(<<>>, content))

(***************************************************************************)
(* config_merger.py                                                        *)
(***************************************************************************)
\* what rglob yields that is not a file
Directory == [t |-> "dir", v |-> <<>>]
IsFile(node) == node # Directory   \* item.is_file()

\* the orders in which rglob('*') may enumerate a tree: the order of the
\* directory scan is the file system's
ScanOrders(tree) ==
    {scan \in [1..Cardinality(DOMAIN tree) -> DOMAIN tree] :
        \A n, m \in DOMAIN scan : scan[n] = scan[m] => n = m}

\* lines 45-49 with `break` where an item that is not a file is passed over
ScanUntilDirectory(map, d, root, scan) ==
    LET RECURSIVE Go(_, _)
        Go(acc, items) ==
            IF items = <<>> \/ ~IsFile(d[root][Head(items)]) THEN acc
            ELSE Go(PutP(acc, Head(items), Loc(root, Head(items))), Tail(items))
    IN Go(map, scan)
\* lines 45-49 with `if key not in merged_config_map` before the assignment
ScanKeepingExisting(map, d, root, scan) ==
    LET RECURSIVE Go(_, _)
        Go(acc, items) ==
            IF items = <<>> THEN acc
            ELSE Go(IF IsFile(d[root][Head(items)]) /\ ~HasKeyP(acc, Head(items))
                    THEN PutP(acc, Head(items), Loc(root, Head(items))) ELSE acc,
                    Tail(items))
    IN Go(map, scan)
\* lines 45-49 and 52-56: the loop over one tree; a key that exists keeps its
\* place in the dict and takes the new value
ScanInto(map, d, root, scan) ==
    LET RECURSIVE Go(_, _)
        Go(acc, items) ==
            IF items = <<>> THEN acc
            ELSE Go(IF IsFile(d[root][Head(items)])
                    THEN PutP(acc, Head(items), Loc(root, Head(items))) ELSE acc,
                    Tail(items))
    IN Go(map, scan)

\* lines 33-40 with the two checks exchanged
MissingRootEnvFirst(d) ==
    IF "env" \notin d.dirs THEN "env"
    ELSE IF "global" \notin d.dirs THEN "global" ELSE "none"
\* lines 33-40: the root whose is_dir() check fails first
MissingRoot(d) ==
    IF "global" \notin d.dirs THEN "global"
    ELSE IF "env" \notin d.dirs THEN "env" ELSE "none"

\* lines 30-59
merge_env_configs(d, global_scan, env_scan) ==
    IF MissingRoot(d) # "none"
    THEN Raised("FileNotFoundError", "dir_missing", MissingRoot(d))
    ELSE Returned(ScanInto(ScanInto(<<>>, d, "global", global_scan), d, "env", env_scan))

(***************************************************************************)
(* config_processor.py: service extraction, lines 99-154                   *)
(***************************************************************************)
DefaultMaxIterations == 10
Unset == [t |-> "unset", v |-> <<>>]
EmptyDict == Dict(<<>>)

\* lines 103-113 without the wrapping of lines 108-113
ServicesListAsLoaded(data) == Get(data, "services")
\* lines 103-113: a dict under `services` is wrapped into a one-element list
ServicesList(data) ==
    IF IsDict(Get(data, "services")) THEN List(<<Get(data, "services")>>)
    ELSE Get(data, "services")

\* lines 123-124 without the comparison of the name
EntryHasName(service_entry, name) ==
    IsDict(service_entry) /\ HasKeyP(service_entry.v, "name")
\* lines 123-124
EntryMatches(service_entry, name) ==
    /\ IsDict(service_entry)
    /\ HasKeyP(service_entry.v, "name")
    /\ TreeEq(GetP(service_entry.v, "name"), name)

\* lines 119-127 with a fallback to the first entry
FirstMatchOrFirst(services_list, name) ==
    IF \E n \in 1..Len(services_list) : EntryMatches(services_list[n], name)
    THEN CHOOSE n \in 1..Len(services_list) :
             /\ EntryMatches(services_list[n], name)
             /\ \A m \in 1..(n - 1) : ~EntryMatches(services_list[m], name)
    ELSE IF services_list # <<>> THEN 1 ELSE 0
\* lines 119-127: the index of the first entry that matches, or 0
FirstMatch(services_list, name) ==
    IF \E n \in 1..Len(services_list) : EntryMatches(services_list[n], name)
    THEN CHOOSE n \in 1..Len(services_list) :
             /\ EntryMatches(services_list[n], name)
             /\ \A m \in 1..(n - 1) : ~EntryMatches(services_list[m], name)
    ELSE 0

\* line 132: [s.get('name') for s in services_list if isinstance(s, dict) and 'name' in s]
RECURSIVE AvailableNames(_)
AvailableNames(services_list) ==
    IF services_list = <<>> THEN <<>>
    ELSE (IF IsDict(Head(services_list)) /\ HasKeyP(Head(services_list).v, "name")
          THEN <<GetP(Head(services_list).v, "name")>> ELSE <<>>)
         \o AvailableNames(Tail(services_list))

\* lines 142-149 without the isinstance test of line 147
RecordsContextUnchecked(entry) ==
    LET properties == IF HasKey(entry, "properties") THEN Get(entry, "properties")
                      ELSE Dict(<<>>)
        configs == IF HasKey(properties, "configs") THEN Get(properties, "configs")
                   ELSE Dict(<<>>)
        private_config == IF HasKey(configs, "private") THEN Get(configs, "private")
                          ELSE Dict(<<>>)
    IN IF HasKey(private_config, "records") THEN Get(private_config, "records")
       ELSE Dict(<<>>)
\* lines 142-149: x.get(key, {}) if isinstance(x, dict) else {}
GetOrEmpty(x, key) ==
    IF IsDict(x) THEN (IF HasKeyP(x.v, key) THEN GetP(x.v, key) ELSE EmptyDict)
    ELSE EmptyDict
RecordsContext(entry) ==
    LET properties == GetOrEmpty(entry, "properties")
        configs == GetOrEmpty(properties, "configs")
        private_config == GetOrEmpty(configs, "private")
        records == GetOrEmpty(private_config, "records")
    IN IF IsDict(records) THEN records ELSE EmptyDict

\* lines 156-159 with the whole document as data_to_process
SubstitutionInputWholeDocument(data, entry) == data
\* lines 156-159: data_to_process=target_service_config
SubstitutionInput(data, entry) == entry

\* lines 99-132: the selected entry, or the ValueError raised
ExtractTarget(data, name) ==
    IF ~IsDict(data) \/ ~HasKeyP(data.v, "services")
    THEN Raised("ValueError", "services_missing", <<>>)
    ELSE IF ~IsList(ServicesList(data))
    THEN Raised("ValueError", "services_not_list", <<>>)
    ELSE LET services_list == ServicesList(data).v
             n == FirstMatch(services_list, name)
         IN IF n = 0
            THEN Raised("ValueError", "service_not_found", AvailableNames(services_list))
            ELSE Returned(services_list[n])

(***************************************************************************)
(* The inputs the calls are made with                                      *)
(***************************************************************************)
MaxFrags    == 2      \* longest `<<:` list drawn
MaxIter     == 3      \* largest max_iterations drawn
MaxServices == 3      \* longest `services` list drawn
MaxLines    == 3      \* most lines of a properties text drawn

SeqsUpTo(S, n) == UNION {[1..m -> S] : m \in 0..n}

Tok(path) == <<"{", "{">> \o path \o <<"}", "}">>
Ref(atoms) == Dict(<<KV(REF_KEY, Str(atoms))>>)

\* ---- placeholder substitution: records {a, b, c, db}, tree {k: T1, l: [T2]}
ValuesA == { Str(<<"v">>), Str(Tok(<<"b">>)), Str(Tok(<<"a">>)),
             Str(<<"x">> \o Tok(<<"a">>)), Str(<<"{", "{">>), Num("7") }
ValuesB == { Str(<<"w">>), Str(Tok(<<"a">>)), Str(Tok(<<"c">>)), Str(Tok(<<"zz">>)) }
ValuesC == { Str(<<"u">>), Str(Tok(<<"a">>)) }
DbRecords == Dict(<<KV("host", Str(<<"h">>)), KV("port", Str(<<"5432">>))>>)
RecordsInputs ==
    { Dict(<<KV("a", va), KV("b", vb), KV("c", vc), KV("db", DbRecords)>>) :
        va \in ValuesA, vb \in ValuesB, vc \in ValuesC }
Templates1 ==
    { Str(Tok(<<"a">>)), Str(Tok(<<"b">>)), Str(Tok(<<"c">>)),
      Str(Tok(<<" ", "a", " ">>)),
      Str(Tok(<<"a">>) \o <<":">> \o Tok(<<"b">>)),
      Str(Tok(<<"db", ".", "host">>) \o <<":">> \o Tok(<<"db", ".", "port">>)),
      Str(Tok(<<" ", "db", ".", "host", " ">>) \o <<":">> \o Tok(<<"db", ".", "port">>)),
      Str(Tok(<<"a">>) \o <<"b", "}", "}">> \o Tok(<<"b">>)),
      Str(Tok(<<"a">>) \o <<"b", "}", "}">>),
      Str(Tok(<<"zz">>)),
      Str(Tok(<<"a", ".", "b">>)),
      Str(Tok(<<"db", ".", "nokey">>)),
      Str(Tok(<<"db">>)),
      Str(<<"plain">>) }
Templates2 == { Num("1"), Str(Tok(<<"b">>)), Str(Tok(<<"zz">>)) }
SubstTrees ==
    { Dict(<<KV("k", t1), KV("l", List(<<t2>>))>>) : t1 \in Templates1, t2 \in Templates2 }
    \cup \* a mapping one of whose keys is itself written as a token
    { Dict(<<KV("k", t1), KV("l", List(<<Num("1")>>)), KV("{{zz}}", t1)>>) :
        t1 \in {Str(<<"plain">>), Str(Tok(<<"a">>))} }

\* ---- merge keys: a mapping with a `<<:` list of fragments and sibling keys
FragValues == { Num("1"), Num("9") }
FlatFrags ==
    { Dict(<<>>), Dict(<<KV("y", Num("2"))>>) } \cup
    { Dict(<<KV("x", vx)>>) : vx \in FragValues } \cup
    { Dict(<<KV("x", vx), KV("y", Num("2"))>>) : vx \in FragValues }
OtherFrags ==
    { Dict(<<KV("x", Dict(<<KV("a", Num("1"))>>))>>),
      Dict(<<KV("x", Dict(<<KV("b", Num("2"))>>)), KV("y", Num("2"))>>),
      Dict(<<KV(MERGE_KEY, List(<<Dict(<<KV("x", Num("1"))>>)>>)), KV("y", Num("2"))>>),
      Dict(<<KV("x", Dict(<<KV(MERGE_KEY, List(<<Dict(<<KV("a", Num("3"))>>)>>))>>))>>),
      Dict(<<KV(MERGE_KEY, Num("5")), KV("y", Num("2"))>>),
      Dict(<<KV("x", List(<<Num("1"), Num("2")>>))>>),
      Num("5") }
Frags == FlatFrags \cup OtherFrags
SiblingInputs ==
    { <<>>, <<KV("y", Num("5"))>>, <<KV("x", Num("5")), KV("y", Num("5"))>>,
      <<KV("x", Dict(<<KV("c", Num("3"))>>))>>,
      <<KV("x", List(<<Num("3")>>))>> }
MergeNodes ==
    { Dict(<<KV(MERGE_KEY, List(frags))>> \o siblings) :
        frags \in SeqsUpTo(Frags, MaxFrags), siblings \in SiblingInputs }
    \cup
    { \* the example of the specification, and a `<<:` that is no list
      Dict(<<KV(MERGE_KEY, List(<<Dict(<<KV("x", Num("1")), KV("y", Num("2"))>>),
                                  Dict(<<KV("x", Num("9")), KV("z", Num("3"))>>)>>)),
             KV("y", Num("5"))>>),
      Dict(<<KV(MERGE_KEY, Dict(<<KV("x", Num("1"))>>)), KV("y", Num("5"))>>) }
MergeInputs ==
    MergeNodes \cup { Dict(<<KV("top", List(<<node>>))>>) : node \in MergeNodes }

\* ---- references: a.yaml {x, y} and b/c.yaml {y, z} refer to each other, and
\* to b/d.yaml and d.yaml
PathA == <<"a.yaml">>
PathC == <<"b", "c.yaml">>
PathBD == <<"b", "d.yaml">>
PathD == <<"d.yaml">>
RefsInA ==
    { Ref(<<"b", "/", "c.yaml", "#", "/", "y">>),
      Ref(<<"b", "/", "c.yaml", "#", "/", "z">>),
      Ref(<<"#", "/", "x">>),
      Ref(<<"#", "/", "y">>),
      Ref(<<"b", "/", "c.yaml">>),
      Ref(<<"nofile.yaml", "#", "/", "x">>),
      Ref(<<"b", "/", "c.yaml", "#", "/", "nokey">>),
      \* "b/c.yaml"# and 'b/c.yaml'#'/z': quoted parts, an empty pointer
      Ref(<<"\"", "b", "/", "c.yaml", "\"", "#">>),
      Ref(<<"'", "b", "/", "c.yaml", "'", "#", "'", "/", "z", "'">>) }
NodesInA ==
    RefsInA \cup { Num("1"),
                   List(<<Ref(<<"b", "/", "c.yaml", "#", "/", "z">>),
                          Ref(<<"b", "/", "c.yaml", "#", "/", "z">>)>>) }
RefsInC ==
    { Ref(<<"..", "/", "a.yaml", "#", "/", "x">>),
      Ref(<<"..", "/", "a.yaml", "#", "/", "y">>),
      Ref(<<"#", "/", "z">>),
      Ref(<<".", "/", "d.yaml", "#", "/", "v">>),
      Ref(<<"d.yaml", "#", "/", "v">>),
      Ref(<<"d.yaml", "#", "/", "v", "/", "k">>),
      Ref(<<"c.yaml", "#", "/", "z">>) }
NodesInC == RefsInC \cup { Num("2") }
RefDisks ==
    { [dirs |-> {"global", "env"},
       global |-> (PathA :> Dict(<<KV("x", ax), KV("y", ay)>>))
                  @@ (PathC :> Dict(<<KV("y", cy), KV("z", cz)>>))
                  @@ (PathBD :> Dict(<<KV("v", Str(<<"bd">>))>>))
                  @@ (PathD :> Dict(<<KV("v", Str(<<"d">>))>>)),
       env |-> <<>>] :
        ax \in NodesInA, ay \in NodesInA, cy \in NodesInC, cz \in NodesInC }

\* the order of the keys of the map resolve_refs is called with
RefScan == <<PathA, PathC, PathBD, PathD>>

EmptyDisk == [dirs |-> {}, global |-> <<>>, env |-> <<>>]

\* ---- the pipeline: value/global/resources.yaml holds the services; one entry
\* is a reference into a.yaml, which the environment may override
PathMain == <<"resources.yaml">>
ServiceNames == { Str(<<"X">>), Str(<<"Y">>), Str(<<"Z">>) }
RecordsOf(host) ==
    Dict(<<KV("configs", Dict(<<KV("private",
              Dict(<<KV("records", Dict(<<KV("host", Str(<<host>>))>>))>>))>>))>>)
EntryX  == Dict(<<KV("name", Str(<<"X">>)), KV("port", Num("1"))>>)
EntryX2 == Dict(<<KV("name", Str(<<"X">>)), KV("port", Num("2")),
                  KV("url", Str(Tok(<<"nokey">>)))>>)
EntryRef == Ref(<<"a.yaml", "#", "/", "svc">>)
EntryNoName == Dict(<<KV("port", Num("3"))>>)
EntryScalar == Str(<<"X">>)
ServiceYWith(port, properties) ==
    Dict(<<KV("svc",
              Dict(<<KV(MERGE_KEY, List(<<Dict(<<KV("properties", properties),
                                                  KV("port", Num("0"))>>)>>)),
                     KV("name", Str(<<"Y">>)),
                     KV("port", Num(port)),
                     KV("url", Str(<<"http://">> \o Tok(<<"host">>)))>>))>>)
ServiceY(port, host) == ServiceYWith(port, RecordsOf(host))
\* properties whose path to the records ends early or in a value that is no mapping
OddProperties ==
    { Str(<<"p">>),
      Dict(<<KV("configs", Dict(<<KV("public", Dict(<<>>))>>))>>),
      Dict(<<KV("configs", Dict(<<KV("private",
                Dict(<<KV("records", List(<<Str(<<"h">>)>>))>>))>>))>>) }
EntryInputs == { EntryX, EntryX2, EntryRef, EntryNoName, EntryScalar }
ServicesInputs ==
    { List(entries) : entries \in SeqsUpTo(EntryInputs, MaxServices) }
    \cup { EntryX, Num("1") }
MainDocs ==
    { Dict(<<KV("services", services)>>) : services \in ServicesInputs }
    \cup { Dict(<<KV("other", Num("1"))>>), List(<<>>) }
PathConf == <<"conf">>
PathEnvOnly == <<"conf", "e.yaml">>
EnvDirs ==
    { <<>>,
      (PathA :> ServiceY("5", "e")) @@ (PathConf :> Directory)
          @@ (PathEnvOnly :> Dict(<<KV("v", Str(<<"e">>))>>)) }
    \cup { (PathA :> ServiceYWith("6", properties)) : properties \in OddProperties }
ProcessDisks ==
    { [dirs |-> {"global", "env"},
       global |-> (PathMain :> main) @@ (PathA :> ServiceY("4", "h"))
                  @@ (PathConf :> Directory),
       env |-> env] : main \in MainDocs, env \in EnvDirs }
    \cup
    { [dirs |-> {}, global |-> <<>>, env |-> <<>>],
      [dirs |-> {"env"}, global |-> <<>>, env |-> (PathMain :> List(<<>>))],
      [dirs |-> {"global"}, global |-> (PathMain :> List(<<>>)), env |-> <<>>],
      [dirs |-> {"global", "env"},
       global |-> (PathA :> ServiceY("4", "h")) @@ (PathD :> Dict(<<KV("v", Num("1"))>>)),
       env |-> <<>>] }

(***************************************************************************)
(* The state machine                                                       *)
(***************************************************************************)
InitResolveRefs ==
    /\ call = "resolve_refs"
    /\ pc = "resolve_refs"
    /\ disk \in RefDisks
    /\ merged_config_map = merge_env_configs(disk, RefScan, <<>>).val
    /\ main_config_file \in {PathA, PathC}
    /\ service_name_to_extract = Unset
    /\ resolved_data_from_main_file = Unset
    /\ target_service_config = Unset
    /\ records_context = Unset
    /\ max_iterations = 0
    /\ processed_data = Unset

InitMergeKeys ==
    /\ call = "merge_yaml_with_merge_keys"
    /\ pc = "merge_keys"
    /\ disk = EmptyDisk
    /\ merged_config_map = <<>>
    /\ main_config_file = PathMain
    /\ service_name_to_extract = Unset
    /\ resolved_data_from_main_file \in MergeInputs
    /\ target_service_config = Unset
    /\ records_context = Unset
    /\ max_iterations = 0
    /\ processed_data = Unset

InitSubstitute ==
    /\ call = "substitute_placeholders"
    /\ pc = "substitute"
    /\ disk = EmptyDisk
    /\ merged_config_map = <<>>
    /\ main_config_file = PathMain
    /\ service_name_to_extract = Unset
    /\ resolved_data_from_main_file = Unset
    /\ target_service_config \in SubstTrees
    /\ records_context \in RecordsInputs
    /\ max_iterations \in 0..MaxIter
    /\ processed_data = target_service_config

InitProcess ==
    /\ call = "process_config_package"
    /\ pc = "merge_env_configs"
    /\ disk \in ProcessDisks
    /\ merged_config_map = <<>>
    /\ main_config_file = PathMain
    /\ service_name_to_extract \in ServiceNames
    /\ resolved_data_from_main_file = Unset
    /\ target_service_config = Unset
    /\ records_context = Unset
    /\ max_iterations = 0
    /\ processed_data = Unset

\* a properties text of up to MaxLines lines: keys with one, two and three
\* segments, one a prefix of the other, the same key twice, comments, a line
\* without "=", a line without a key, whitespace around key and value
InitProperties ==
    /\ call = "convert_properties_to_dict"
    /\ pc = "convert_properties"
    /\ disk = EmptyDisk
    /\ merged_config_map = <<>>
    /\ main_config_file = PathMain
    /\ service_name_to_extract = Unset
    /\ resolved_data_from_main_file = Unset
    /\ target_service_config = Unset
    /\ records_context = Unset
    /\ max_iterations = 0
    /\ processed_data = Unset
    /\ LET RECURSIVE Join(_)
           Join(lines) == IF Len(lines) = 1 THEN lines[1]
                          ELSE lines[1] \o <<"\n">> \o Join(Tail(lines))
       IN \E n \in 1..MaxLines :
             \E lines \in [1..n -> { <<"a", "=", "1">>,
                                     <<"a", "=", "2">>,
                                     <<"a", ".", "b", "=", "2">>,
                                     <<"a", ".", "b", "=", "{", "{", "a", "}", "}">>,
                                     <<"a", ".", "b", ".", "c", "=", "3">>,
                                     <<"b", "=", "1", "=", "2">>,
                                     <<" ", "a", " ", "=", " ", "3", " ">>,
                                     <<"a">>,
                                     <<"=", "1">>,
                                     <<"#", "a", "=", "9">>,
                                     <<" ", "!", "b">>,
                                     <<>> }] :
                properties_content = Join(lines)

Init ==
    /\ \/ /\ \/ InitResolveRefs
             \/ InitMergeKeys
             \/ InitSubstitute
             \/ InitProcess
          /\ properties_content = <<>>
       \/ InitProperties
    /\ visited_refs = {}
    /\ data_after_merge_keys = Unset
    /\ i = 0
    /\ result = NoResult
    /\ walk = IdleWalk
    /\ calls = <<>>

InProcess == call = "process_config_package"

\* lines 170-172 with `return None` in place of `raise`
ReturnNone(r) ==
    /\ pc' = "done"
    /\ result' = Returned(Null)
\* the call ends by raising: process_config_package logs and re-raises
\* (lines 170-172), the other calls just raise
Raise(r) ==
    /\ pc' = "raised"
    /\ result' = Raised(r.exc, r.why, r.info)

\* config_processor.py lines 54-62
MergeEnvConfigs ==
    /\ InProcess /\ pc = "merge_env_configs"
    /\ \E global_scan \in ScanOrders(disk.global), env_scan \in ScanOrders(disk.env) :
       LET r == merge_env_configs(disk, global_scan, env_scan)
       IN IF r.ok
          THEN /\ merged_config_map' = r.val
               /\ pc' = "resolve_refs"
               /\ UNCHANGED result
          ELSE /\ Raise(r)
               /\ UNCHANGED merged_config_map
    /\ UNCHANGED <<properties_content, walk, calls, call, disk, main_config_file, service_name_to_extract, visited_refs,
                   resolved_data_from_main_file, data_after_merge_keys,
                   target_service_config, records_context, max_iterations, i,
                   processed_data>>

\* resolve_refs; in the pipeline, config_processor.py lines 64-81
ResolveRefs ==
    /\ pc = "resolve_refs"
    /\ IF InProcess /\ ~InMap(main_config_file)
       THEN /\ Raise(Raised("ValueError", "main_file_missing",
                            [file |-> main_config_file, keys |-> MapKeys]))
            /\ UNCHANGED <<visited_refs, resolved_data_from_main_file>>
       ELSE LET r == resolve_refs(main_config_file)
            IN /\ visited_refs' = r.visited
               /\ IF r.ok
                  THEN /\ resolved_data_from_main_file' = r.val
                       /\ IF InProcess
                          THEN pc' = "merge_keys" /\ UNCHANGED result
                          ELSE pc' = "done" /\ result' = Returned(r.val)
                  ELSE /\ Raise(r)
                       /\ UNCHANGED resolved_data_from_main_file
    /\ UNCHANGED <<properties_content, walk, calls, call, disk, merged_config_map, main_config_file,
                   service_name_to_extract, data_after_merge_keys,
                   target_service_config, records_context, max_iterations, i,
                   processed_data>>

\* merge_yaml_with_merge_keys; in the pipeline, config_processor.py lines 83-97
MergeKeys ==
    /\ pc = "merge_keys"
    /\ LET r == merge_yaml_with_merge_keys(resolved_data_from_main_file)
       IN IF r.ok
          THEN /\ data_after_merge_keys' = r.val
               /\ IF InProcess
                  THEN pc' = "extract" /\ UNCHANGED result
                  ELSE pc' = "done" /\ result' = Returned(r.val)
          ELSE /\ Raise(r)
               /\ UNCHANGED data_after_merge_keys
    \* the caller's tree is what its objects hold when the call has ended
    /\ LET held == Store(<<>>, resolved_data_from_main_file)
       IN resolved_data_from_main_file' =
              Fetch(MergeKeysOnHeap(held.heap, held.x).heap, held.x)
    /\ UNCHANGED <<properties_content, walk, calls, call, disk, merged_config_map, main_config_file,
                   service_name_to_extract, visited_refs,
                   target_service_config, records_context, max_iterations, i,
                   processed_data>>

\* config_processor.py lines 99-154: the entry is selected, its records become
\* the context, and substitute_placeholders is entered with its defaults
ExtractService ==
    /\ InProcess /\ pc = "extract"
    /\ LET r == ExtractTarget(data_after_merge_keys, service_name_to_extract)
       IN IF r.ok
          THEN /\ target_service_config' = r.val
               /\ records_context' = RecordsContext(r.val)
               /\ max_iterations' = DefaultMaxIterations
               /\ processed_data' = SubstitutionInput(data_after_merge_keys, r.val)
               /\ pc' = "substitute"
               /\ UNCHANGED result
          ELSE /\ Raise(r)
               /\ UNCHANGED <<target_service_config, records_context, max_iterations,
                              processed_data>>
    /\ UNCHANGED <<properties_content, walk, calls, call, disk, merged_config_map, main_config_file,
                   service_name_to_extract, visited_refs, resolved_data_from_main_file,
                   data_after_merge_keys, i>>

\* substitute_placeholders returns val: placeholder_substitutor.py lines 75, 86
SubstReturn(val) ==
    IF InProcess
    THEN pc' = "output" /\ UNCHANGED result
    ELSE pc' = "done" /\ result' = Returned(val)

\* placeholder_substitutor.py lines 51-75: one iteration of the loop
SubstPass ==
    /\ pc = "substitute"
    /\ i < max_iterations
    /\ LET r == _substitute_in_block_one_pass(processed_data, records_context)
       IN IF r.ok
          THEN /\ processed_data' = r.val
               /\ i' = i + 1
               /\ IF ~r.changed THEN SubstReturn(r.val)
                  ELSE pc' = "substitute" /\ UNCHANGED result
          ELSE /\ Raise(r)
               /\ UNCHANGED <<processed_data, i>>
    /\ UNCHANGED <<properties_content, walk, calls, call, disk, merged_config_map, main_config_file,
                   service_name_to_extract, visited_refs, resolved_data_from_main_file,
                   data_after_merge_keys, target_service_config, records_context,
                   max_iterations>>

\* placeholder_substitutor.py lines 77-86: the loop ran max_iterations times
SubstExhausted ==
    /\ pc = "substitute"
    /\ i >= max_iterations
    /\ LET r == ExhaustedOutcome(processed_data)
       IN IF r.ok THEN SubstReturn(r.val) ELSE Raise(r)
    /\ UNCHANGED <<properties_content, walk, calls, call, disk, merged_config_map, main_config_file,
                   service_name_to_extract, visited_refs, resolved_data_from_main_file,
                   data_after_merge_keys, target_service_config, records_context,
                   max_iterations, i, processed_data>>

\* config_processor.py lines 163-168: {actual_service_name_key: final_service_config};
\* the key is the selected entry's name, a string of one atom
BuildOutput ==
    /\ InProcess /\ pc = "output"
    /\ result' = Returned(Dict(<<KV(Get(target_service_config, "name").v[1],
                                    processed_data)>>))
    /\ pc' = "done"
    /\ UNCHANGED <<properties_content, walk, calls, call, disk, merged_config_map, main_config_file,
                   service_name_to_extract, visited_refs, resolved_data_from_main_file,
                   data_after_merge_keys, target_service_config, records_context,
                   max_iterations, i, processed_data>>

\* properties_parser.py lines 4-53: the call returns the mapping or raises
ConvertProperties ==
    /\ pc = "convert_properties"
    /\ LET r == convert_properties_to_dict(properties_content)
       IN IF r.ok THEN pc' = "done" /\ result' = Returned(r.val) ELSE Raise(r)
    /\ UNCHANGED <<properties_content, walk, calls, call, disk, merged_config_map,
                   main_config_file, service_name_to_extract, visited_refs,
                   resolved_data_from_main_file, data_after_merge_keys,
                   target_service_config, records_context, max_iterations, i,
                   processed_data>>

Next ==
    \/ MergeEnvConfigs
    \/ ResolveRefs
    \/ MergeKeys
    \/ ExtractService
    \/ SubstPass
    \/ SubstExhausted
    \/ BuildOutput
    \/ ConvertProperties

Spec == Init /\ [][Next]_vars

(***************************************************************************)
(* resolve_refs run step by step: each entry into _resolve_refs_recursive  *)
(* and each return from it is a step, and the caller may call again when a *)
(* call has ended                                                          *)
(***************************************************************************)
MaxDepth == 6      \* deepest nesting of reference expansions explored
MaxCalls == 2      \* most calls of resolve_refs made one after another

\* a.yaml {x, y} and b/c.yaml {y, z} as above, with malformed documents: a
\* `$ref` that is no string, a reference node with sibling keys
WalkDisks ==
    { [dirs |-> {"global", "env"},
       global |-> (PathA :> Dict(<<KV("x", ax), KV("y", ay)>>))
                  @@ (PathC :> Dict(<<KV("y", cy), KV("z", cz)>>))
                  @@ (PathBD :> Dict(<<KV("v", Str(<<"bd">>))>>))
                  @@ (PathD :> Dict(<<KV("v", Str(<<"d">>))>>)),
       env |-> <<>>] :
        ax \in { Ref(<<"b", "/", "c.yaml", "#", "/", "y">>),
                 Ref(<<"b", "/", "c.yaml", "#", "/", "z">>),
                 Ref(<<"#", "/", "y">>),
                 Dict(<<KV("n", List(<<Ref(<<"b", "/", "c.yaml", "#", "/", "z">>)>>))>>),
                 Dict(<<KV(REF_KEY, Num("1"))>>) },
        ay \in { Ref(<<"b", "/", "c.yaml", "#", "/", "z">>),
                 Ref(<<"#", "/", "x">>),
                 Ref(<<"nofile.yaml", "#", "/", "x">>),
                 \* a reference with a sibling key, itself a reference to no file
                 Dict(<<KV(REF_KEY, Str(<<"b", "/", "c.yaml", "#", "/", "z">>)),
                        KV("port", Ref(<<"gone.yaml", "#", "/", "x">>))>>),
                 Num("1") },
        cy \in { Ref(<<"..", "/", "a.yaml", "#", "/", "x">>),
                 Ref(<<"#", "/", "z">>),
                 Ref(<<"d.yaml", "#", "/", "v">>),
                 Num("2") },
        cz \in { Ref(<<"..", "/", "a.yaml", "#", "/", "y">>),
                 Ref(<<"#", "/", "y">>),
                 List(<<>>),
                 Num("2") } }

WalkInit ==
    /\ call = "resolve_refs"
    /\ pc = "load"
    /\ disk \in WalkDisks
    /\ merged_config_map = merge_env_configs(disk, RefScan, <<>>).val
    /\ main_config_file \in {PathA, PathC, PathMain}
    /\ service_name_to_extract = Unset
    /\ visited_refs = {}
    /\ resolved_data_from_main_file = Unset
    /\ data_after_merge_keys = Unset
    /\ target_service_config = Unset
    /\ records_context = Unset
    /\ max_iterations = 0
    /\ i = 0
    /\ processed_data = Unset
    /\ result = NoResult
    /\ walk = IdleWalk
    /\ calls = <<>>
    /\ properties_content = <<>>

\* lines 71 and 216-237: the call is entered and the base file loaded
WalkLoad ==
    /\ pc = "load"
    /\ visited_refs' = FreshVisited(visited_refs)
    /\ IF ~InMap(main_config_file)
       THEN /\ Raise(Raised("RefResolutionError", "base_file_missing", main_config_file))
            /\ UNCHANGED walk
       ELSE IF ~IsSupportedFile(MapGet(main_config_file).path)
       THEN /\ Raise(Raised("RefResolutionError", "unsupported_file_type",
                            main_config_file))
            /\ UNCHANGED walk
       ELSE /\ walk' = [stack |-> <<>>,
                        now |-> [op |-> "call", data |-> FileOf(MapGet(main_config_file)),
                                 ctx |-> main_config_file]]
            /\ pc' = "walk"
            /\ UNCHANGED result
    /\ UNCHANGED <<properties_content, calls, call, disk, merged_config_map, main_config_file,
                   service_name_to_extract, resolved_data_from_main_file,
                   data_after_merge_keys, target_service_config, records_context,
                   max_iterations, i, processed_data>>

\* lines 83-128: what entering _resolve_refs_recursive(data, ctx) leads to: the
\* error raised, or the frames and the marker set after the step
EnterCall(stack, data, ctx, visited) ==
    LET return(val) == [stack |-> stack,
                        now |-> [op |-> "return", data |-> val, ctx |-> <<>>]]
        enter(frame, value, file) ==
            [stack |-> Append(stack, frame),
             now |-> [op |-> "call", data |-> value, ctx |-> file]]
        goes_on(next, marked) == [ok |-> TRUE, walk |-> next, visited |-> marked]
        raises(r, marked) == [ok |-> FALSE, exc |-> r.exc, why |-> r.why,
                              info |-> r.info, visited |-> marked]
    IN IF IsDict(data) /\ IsRefNode(data)
       THEN LET ref_value == GetP(data.v, REF_KEY)
            IN IF ~IsStr(ref_value)
               THEN raises(Raised(IF IsDict(ref_value) \/ IsList(ref_value)
                                  THEN "AttributeError" ELSE "TypeError",
                                  "ref_value_not_str", <<>>), visited)
               ELSE IF Revisited(RefKey(ctx, ref_value.v), visited)
               THEN raises(OnRevisit(data, RefKey(ctx, ref_value.v), visited), visited)
               ELSE LET got == _resolve_ref(ref_value.v, ctx)
                        marked == visited \cup {RefKey(ctx, ref_value.v)}
                    IN IF ~got.ok THEN raises(got, marked)
                       ELSE goes_on(enter(Frame("ref", RefKey(ctx, ref_value.v),
                                                <<>>, "", <<>>, ctx),
                                          got.val, got.file), marked)
       ELSE IF IsDict(data) /\ data.v # <<>>
       THEN goes_on(enter(Frame("dict", <<>>, <<>>, Head(data.v).k, Tail(data.v), ctx),
                          Head(data.v).val, ctx), visited)
       ELSE IF IsList(data) /\ data.v # <<>>
       THEN goes_on(enter(Frame("list", <<>>, <<>>, "", Tail(data.v), ctx),
                          Head(data.v), ctx), visited)
       ELSE goes_on(return(data), visited)

\* _resolve_refs_recursive is entered, no deeper than MaxDepth expansions
WalkCall ==
    /\ pc = "walk" /\ walk.now.op = "call"
    /\ Len(Expanding(walk.stack)) < MaxDepth
    /\ LET r == EnterCall(walk.stack, walk.now.data, walk.now.ctx, visited_refs)
       IN /\ visited_refs' = r.visited
          /\ IF r.ok
             THEN walk' = r.walk /\ UNCHANGED <<pc, result>>
             ELSE Raise(r) /\ UNCHANGED walk
    /\ UNCHANGED <<properties_content, calls, call, disk, merged_config_map, main_config_file,
                   service_name_to_extract, resolved_data_from_main_file,
                   data_after_merge_keys, target_service_config, records_context,
                   max_iterations, i, processed_data>>

\* lines 104-109, 117, 125: a nested call returns its value to the frame that
\* waits for it
WalkReturn ==
    /\ pc = "walk" /\ walk.now.op = "return" /\ walk.stack # <<>>
    /\ LET frame == walk.stack[Len(walk.stack)]
           below == SubSeq(walk.stack, 1, Len(walk.stack) - 1)
           val == walk.now.data
           done == IF frame.kind = "dict" THEN Append(frame.done, KV(frame.key, val))
                   ELSE Append(frame.done, val)
           return(value) == [stack |-> below,
                             now |-> [op |-> "return", data |-> value, ctx |-> <<>>]]
       IN walk' =
            IF frame.kind = "ref" THEN return(val)
            ELSE IF frame.rest = <<>>
            THEN return(IF frame.kind = "dict" THEN Dict(done) ELSE List(done))
            ELSE IF frame.kind = "dict"
            THEN [stack |-> Append(below, Frame("dict", <<>>, done, Head(frame.rest).k,
                                                Tail(frame.rest), frame.ctx)),
                  now |-> [op |-> "call", data |-> Head(frame.rest).val,
                           ctx |-> frame.ctx]]
            ELSE [stack |-> Append(below, Frame("list", <<>>, done, "",
                                                Tail(frame.rest), frame.ctx)),
                  now |-> [op |-> "call", data |-> Head(frame.rest), ctx |-> frame.ctx]]
    /\ UNCHANGED <<properties_content, calls, call, pc, disk, merged_config_map, main_config_file,
                   service_name_to_extract, visited_refs, resolved_data_from_main_file,
                   data_after_merge_keys, target_service_config, records_context,
                   max_iterations, i, processed_data, result>>

\* line 237: the outermost call returns the resolved tree
WalkFinish ==
    /\ pc = "walk" /\ walk.now.op = "return" /\ walk.stack = <<>>
    /\ resolved_data_from_main_file' = walk.now.data
    /\ result' = Returned(walk.now.data)
    /\ pc' = "done"
    /\ walk' = IdleWalk
    /\ UNCHANGED <<properties_content, calls, call, disk, merged_config_map, main_config_file,
                   service_name_to_extract, visited_refs, data_after_merge_keys,
                   target_service_config, records_context, max_iterations, i,
                   processed_data>>

\* the caller calls resolve_refs once more, with the same map and any base
\* file (main.py lines 186-213 process one package after the other); the set
\* of the call that has ended is still what it was
CallAgain ==
    /\ call = "resolve_refs" /\ pc \in {"done", "raised"}
    /\ Len(calls) + 1 < MaxCalls
    /\ calls' = Append(calls, [main |-> main_config_file, visited |-> visited_refs,
                               ok |-> result.ok])
    /\ main_config_file' \in {PathA, PathC}
    /\ pc' = "load"
    /\ result' = NoResult
    /\ resolved_data_from_main_file' = Unset
    /\ walk' = IdleWalk
    /\ UNCHANGED <<properties_content, call, disk, merged_config_map, service_name_to_extract,
                   visited_refs, data_after_merge_keys, target_service_config,
                   records_context, max_iterations, i, processed_data>>

WalkNext ==
    \/ WalkLoad
    \/ WalkCall
    \/ WalkReturn
    \/ WalkFinish
    \/ CallAgain

WalkSpec == WalkInit /\ [][WalkNext]_vars

(***************************************************************************)
(* Properties of resolve_refs                                              *)
(***************************************************************************)
ResolveFinished == call = "resolve_refs" /\ pc \in {"done", "raised"}
RaisedCircular ==
    ~result.ok /\ result.exc = "RefResolutionError" /\ result.why = "circular"

\* the reference nodes written in a tree that is walked in context ctx, as
\* (walk-context file, $ref value) pairs; the walk does not enter a reference
\* node's own mapping
RECURSIVE RefNodesOf(_, _)
RefNodesOf(tree, ctx) ==
    CASE tree.t = "map" ->
            IF HasKeyP(tree.v, REF_KEY)
            THEN (IF IsStr(GetP(tree.v, REF_KEY))
                  THEN {<<ctx, GetP(tree.v, REF_KEY).v>>} ELSE {})
            ELSE UNION {RefNodesOf(tree.v[n].val, ctx) : n \in 1..Len(tree.v)}
      [] tree.t = "seq" -> UNION {RefNodesOf(tree.v[n], ctx) : n \in 1..Len(tree.v)}
      [] OTHER -> {}

\* the pairs whose expansion the content fetched for a pair asks for
RefSucc(node) ==
    LET got == _resolve_ref(node[2], node[1])
    IN IF got.ok THEN RefNodesOf(got.val, got.file) ELSE {}
RECURSIVE RefClosure(_)
RefClosure(S) ==
    LET more == S \cup UNION {RefSucc(node) : node \in S}
    IN IF more = S THEN S ELSE RefClosure(more)
BaseRefNodes ==
    RefNodesOf(FileOf(MapGet(main_config_file)), main_config_file)
ReachableRefNodes == RefClosure(BaseRefNodes)
\* a true cycle: a pair whose expansion asks, directly or through other pairs,
\* for the pair itself
HasRefCycle == \E node \in ReachableRefNodes : node \in RefClosure(RefSucc(node))
AllTargetsResolve ==
    \A node \in ReachableRefNodes : _resolve_ref(node[2], node[1]).ok

\* the scalar leaves of a tree
RECURSIVE Leaves(_)
Leaves(tree) ==
    CASE tree.t = "map" -> UNION {Leaves(tree.v[n].val) : n \in 1..Len(tree.v)}
      [] tree.t = "seq" -> UNION {Leaves(tree.v[n]) : n \in 1..Len(tree.v)}
      [] OTHER -> {tree}

\* C1: a circular-reference error is raised only for a true cycle (a pair
\* re-entered while its own expansion is in progress); the same $ref written
\* twice on independent paths of a file whose references form no cycle and all
\* resolve is expanded both times and the call returns.
C1_MarkerScopedToExpansion ==
    ResolveFinished =>
        /\ RaisedCircular => HasRefCycle
        /\ (~HasRefCycle /\ AllTargetsResolve) => result.ok

\* C1: the case: a.yaml holds the same reference under x and under y, no
\* references form a cycle, and the call has ended
C1_SiblingRefsCase ==
    /\ ResolveFinished
    /\ main_config_file = PathA
    /\ Get(disk.global[PathA], "x") = Ref(<<"b", "/", "c.yaml", "#", "/", "z">>)
    /\ Get(disk.global[PathA], "y") = Ref(<<"b", "/", "c.yaml", "#", "/", "z">>)
    /\ Get(disk.global[PathC], "z") = Num("2")
    /\ ~HasRefCycle
    /\ RaisedCircular

\* C2: when the references reachable from the base file form a cycle (of any
\* length, a self-reference through an empty file part included) and every
\* reference names an existing file and pointer, resolve_refs ends by raising
\* RefResolutionError for a circular reference; it never returns a tree.
C2_CycleRaisesCircular ==
    (ResolveFinished /\ HasRefCycle /\ AllTargetsResolve) => RaisedCircular

\* C2: the cycle a.yaml#/x -> b/c.yaml#/y -> ../a.yaml#/x was entered from a.yaml
\* and reported when the first pair came up again
C2_TwoFileCycleReported ==
    /\ ResolveFinished
    /\ main_config_file = PathA
    /\ Get(disk.global[PathA], "x") = Ref(<<"b", "/", "c.yaml", "#", "/", "y">>)
    /\ Get(disk.global[PathC], "y") = Ref(<<"..", "/", "a.yaml", "#", "/", "x">>)
    /\ RaisedCircular
    /\ result.info = <<PathA, <<"b", "/", "c.yaml", "#", "/", "y">>>>
    /\ Cardinality(visited_refs) = 2

\* the files whose document holds a reference node with this $ref value
WrittenIn(ref_value) ==
    {path \in KeysP(merged_config_map) :
        <<path, ref_value>> \in RefNodesOf(FileOf(MapGet(path)), path)}

\* C3: every reference is expanded with, as its context, a file in which it is
\* written, and its file part is taken relative to that file's directory: the
\* references ./d.yaml and d.yaml of b/c.yaml fetch b/d.yaml (whose v is "bd"),
\* never the root's d.yaml (whose v is "d"), also when b/c.yaml is itself
\* reached from a.yaml.
C3_RefsRelativeToContainingFile ==
    ResolveFinished =>
        /\ \A pair \in visited_refs : pair[1] \in WrittenIn(pair[2])
        /\ result.ok =>
              /\ Str(<<"d">>) \notin Leaves(result.val)
              /\ (\E pair \in visited_refs :
                     /\ pair[1] = PathC
                     /\ pair[2] \in {<<".", "/", "d.yaml", "#", "/", "v">>,
                                     <<"d.yaml", "#", "/", "v">>})
                 => Str(<<"bd">>) \in Leaves(result.val)

\* C3: a.yaml referenced b/c.yaml, whose ./d.yaml was fetched from b/d.yaml
C3_TwoHopsReached ==
    /\ ResolveFinished
    /\ main_config_file = PathA
    /\ result.ok
    /\ <<PathA, <<"b", "/", "c.yaml", "#", "/", "y">>>> \in visited_refs
    /\ <<PathC, <<".", "/", "d.yaml", "#", "/", "v">>>> \in visited_refs
    /\ Str(<<"bd">>) \in Leaves(result.val)

(***************************************************************************)
(* Properties of merge_yaml_with_merge_keys                                *)
(***************************************************************************)
MergeReturned == call = "merge_yaml_with_merge_keys" /\ pc = "done"

\* the merge node of an input, which lies at the top or under top[0]
MergeNodeOf(tree) ==
    IF HasKey(tree, "top") THEN Get(tree, "top").v[1] ELSE tree
IsScalar(x) == x.t \notin {"map", "seq"}

\* the value of highest priority for a key: the sibling's, or else that of the
\* earliest fragment of the list that defines the key
DefinedBy(node, key) ==
    {n \in 1..Len(Get(node, MERGE_KEY).v) : HasKey(Get(node, MERGE_KEY).v[n], key)}
Winner(node, key) ==
    IF HasKeyP(PopP(node.v, MERGE_KEY), key) THEN Get(node, key)
    ELSE Get(Get(node, MERGE_KEY).v[CHOOSE n \in DefinedBy(node, key) :
                                       \A m \in DefinedBy(node, key) : n <= m], key)
ComposedKeys(node) ==
    KeysP(PopP(node.v, MERGE_KEY))
    \cup UNION {KeysP(Get(node, MERGE_KEY).v[n].v) : n \in 1..Len(Get(node, MERGE_KEY).v)}

SpecExampleNode ==
    Dict(<<KV(MERGE_KEY, List(<<Dict(<<KV("x", Num("1")), KV("y", Num("2"))>>),
                                Dict(<<KV("x", Num("9")), KV("z", Num("3"))>>)>>)),
           KV("y", Num("5"))>>)
SpecExampleResult ==
    Dict(<<KV("x", Num("1")), KV("y", Num("5")), KV("z", Num("3"))>>)

\* C4: a mapping with a `<<:` list of mapping fragments and sibling keys is
\* composed into a mapping whose keys are those of the siblings and of the
\* fragments, and in which a key whose value of highest priority is a scalar has
\* that value: the sibling's if the sibling defines the key, otherwise that of
\* the earliest fragment defining it. [{x:1,y:2},{x:9,z:3}] with sibling {y:5}
\* gives {x:1,y:5,z:3}.
C4_MergeKeyPriority ==
    MergeReturned =>
        LET node == MergeNodeOf(resolved_data_from_main_file)
            out  == MergeNodeOf(result.val)
        IN /\ IsDict(out)
           /\ KeysP(out.v) = ComposedKeys(node)
           /\ \A key \in ComposedKeys(node) :
                 IsScalar(Winner(node, key)) => GetP(out.v, key) = Winner(node, key)
           /\ node = SpecExampleNode => TreeEq(out, SpecExampleResult)

\* C4: the example of the specification has been composed
C4_SpecExampleComposed ==
    /\ MergeReturned
    /\ resolved_data_from_main_file = SpecExampleNode
    /\ TreeEq(result.val, SpecExampleResult)

\* whether some mapping of the tree, at any depth, has the key
RECURSIVE ContainsKey(_, _)
ContainsKey(tree, key) ==
    CASE tree.t = "map" ->
            \/ HasKeyP(tree.v, key)
            \/ \E n \in 1..Len(tree.v) : ContainsKey(tree.v[n].val, key)
      [] tree.t = "seq" -> \E n \in 1..Len(tree.v) : ContainsKey(tree.v[n], key)
      [] OTHER -> FALSE

\* C5: whenever merge_yaml_with_merge_keys returns, no mapping at any depth of
\* the result has a `<<:` key, also when a fragment of a `<<:` list has a `<<:`
\* key of its own.
C5_NoMergeKeyInResult ==
    data_after_merge_keys # Unset => ~ContainsKey(data_after_merge_keys, MERGE_KEY)

\* C5: the case: a fragment with a `<<:` key at its top level was composed and
\* the call returned
C5_FragmentWithMergeKeyCase ==
    /\ MergeReturned
    /\ \E n \in 1..Len(Get(MergeNodeOf(resolved_data_from_main_file), MERGE_KEY).v) :
          HasKey(Get(MergeNodeOf(resolved_data_from_main_file), MERGE_KEY).v[n], MERGE_KEY)
    /\ ContainsKey(result.val, MERGE_KEY)

(***************************************************************************)
(* Properties of substitute_placeholders                                   *)
(***************************************************************************)
\* the trimmed paths of the tokens of a string, and of the strings of a tree
TokenPaths(s) ==
    {Strip(Group1(s, FindIter(s, 1)[n])) : n \in 1..Len(FindIter(s, 1))}
TreePaths(tree) ==
    UNION {TokenPaths(StringsOf(tree)[n]) : n \in 1..Len(StringsOf(tree))}
Resolves(records, path) == _get_value_by_path(records, path) # NOT_FOUND
HasToken(x) == x.t = "str" /\ FindIter(x.v, 1) # <<>>

\* the string a pass is to produce: the text between the tokens, and for each
\* token the string form of the value at its path
RECURSIVE ExpectedString(_, _, _, _)
ExpectedString(s, matches, from, records) ==
    IF matches = <<>> THEN SubSeq(s, from, Len(s))
    ELSE SubSeq(s, from, Head(matches).from - 1)
         \o PyStr(_get_value_by_path(records, Strip(Group1(s, Head(matches)))))
         \o ExpectedString(s, Tail(matches), Head(matches).to + 1, records)
RECURSIVE ExpectedTree(_, _)
ExpectedTree(tree, records) ==
    CASE tree.t = "str" -> Str(ExpectedString(tree.v, FindIter(tree.v, 1), 1, records))
      [] tree.t = "map" ->
            Dict([n \in 1..Len(tree.v) |->
                     KV(tree.v[n].k, ExpectedTree(tree.v[n].val, records))])
      [] tree.t = "seq" ->
            List([n \in 1..Len(tree.v) |-> ExpectedTree(tree.v[n], records)])
      [] OTHER -> tree

\* every token of the tree resolves to a value that has no token
TokensResolveToPlainValues(tree, records) ==
    \A path \in TreePaths(tree) :
        /\ Resolves(records, path)
        /\ ~HasToken(_get_value_by_path(records, path))

\* C6: when every token of the strings of the tree resolves in the context to
\* a value without tokens, the first pass replaces every token by the string
\* form of the value at its trimmed dotted path and leaves the text between the
\* tokens as it was.
C6_OnePassReplacesEveryToken ==
    (call = "substitute_placeholders" /\ i = 1
     /\ TokensResolveToPlainValues(target_service_config, records_context))
        => processed_data = ExpectedTree(target_service_config, records_context)

\* C6: the example of the specification, with and without blanks in the braces
C6_SpecExampleSubstituted ==
    /\ call = "substitute_placeholders" /\ i = 1
    /\ Get(target_service_config, "k")
          = Str(Tok(<<" ", "db", ".", "host", " ">>) \o <<":">> \o Tok(<<"db", ".", "port">>))
    /\ Get(processed_data, "k") = Str(<<"h", ":", "5432">>)

\* the paths reached from a set of paths through the tokens of their values
DepsOf(records, path) ==
    IF Resolves(records, path) /\ _get_value_by_path(records, path).t = "str"
    THEN TokenPaths(_get_value_by_path(records, path).v)
    ELSE {}
RECURSIVE Reach(_, _)
Reach(records, paths) ==
    LET next == paths \cup UNION {DepsOf(records, path) : path \in paths}
    IN IF next = paths THEN paths ELSE Reach(records, next)
OnCycle(records, path) == path \in Reach(records, DepsOf(records, path))
\* the tree has a token that leads to a member of a cycle of the context, and
\* every token met on the way resolves
CycleReferenced(tree, records) ==
    /\ \E path \in Reach(records, TreePaths(tree)) : OnCycle(records, path)
    /\ \A path \in Reach(records, TreePaths(tree)) : Resolves(records, path)
TokensOfTree(tree) ==
    UNION { {Group0(StringsOf(tree)[n], FindIter(StringsOf(tree)[n], 1)[m]) :
                m \in 1..Len(FindIter(StringsOf(tree)[n], 1))} :
            n \in 1..Len(StringsOf(tree)) }

\* C7: when the tokens of the tree lead to a cycle of context values and all
\* of them resolve, substitute_placeholders never returns and never makes more
\* than max_iterations passes: it stops only by raising
\* CircularPlaceholderDependencyError after exactly max_iterations passes, with
\* a token that is still in the tree.
C7_CycleExhaustsBudget ==
    (call = "substitute_placeholders"
     /\ CycleReferenced(target_service_config, records_context))
        => /\ i <= max_iterations
           /\ pc \in {"substitute", "raised"}
           /\ pc = "raised" =>
                 /\ result.exc = "CircularPlaceholderDependencyError"
                 /\ i = max_iterations
                 /\ result.info \in TokensOfTree(processed_data)

\* C7: a cycle a -> b -> a was followed for two passes or more and reported
C7_TwoStepCycleReported ==
    /\ call = "substitute_placeholders"
    /\ Get(records_context, "a") = Str(Tok(<<"b">>))
    /\ Get(records_context, "b") = Str(Tok(<<"a">>))
    /\ CycleReferenced(target_service_config, records_context)
    /\ pc = "raised" /\ i >= 2
    /\ result.exc = "CircularPlaceholderDependencyError"

\* the trimmed paths of the tokens that do not resolve, in the order in which a
\* pass meets them
MissingIn(s, records) ==
    SelectSeq([n \in 1..Len(FindIter(s, 1)) |-> Strip(Group1(s, FindIter(s, 1)[n]))],
              LAMBDA path : ~Resolves(records, path))
RECURSIVE MissingInStrings(_, _)
MissingInStrings(strs, records) ==
    IF strs = <<>> THEN <<>>
    ELSE MissingIn(Head(strs), records) \o MissingInStrings(Tail(strs), records)

\* C8: a pass over a tree that has a token whose path does not resolve (a
\* segment is missing, or is looked up in a node that is not a mapping) raises
\* PlaceholderNotFoundError with the trimmed dotted path of the first such
\* token; the pass neither completes nor returns.
C8_MissingPathRaisesInThatPass ==
    [][(pc = "substitute" /\ i < max_iterations
        /\ MissingInStrings(StringsOf(processed_data), records_context) # <<>>)
          => /\ pc' = "raised"
             /\ result'.exc = "PlaceholderNotFoundError"
             /\ result'.info
                  = Head(MissingInStrings(StringsOf(processed_data), records_context))
             /\ i' = i]_vars

\* C8: a path that appears only after a first pass is reported in a later pass
C8_MissingPathReportedMidRun ==
    /\ call = "substitute_placeholders"
    /\ pc = "raised" /\ i >= 1
    /\ result.exc = "PlaceholderNotFoundError"
    /\ result.info = <<"zz">>
    /\ ~(<<"zz">> \in TreePaths(target_service_config))

(***************************************************************************)
(* Properties of process_config_package                                    *)
(***************************************************************************)
NamedAs(entry, name) ==
    IsDict(entry) /\ HasKey(entry, "name") /\ TreeEq(Get(entry, "name"), name)
HasServicesSequence(data) ==
    IsDict(data) /\ HasKey(data, "services") /\ IsList(ServicesList(data))

\* C9: a result of process_config_package is a mapping with one key, the
\* requested name, and the value under it comes from an entry of the services
\* sequence whose name is the requested one: the entry selected has that name,
\* the value has the entry's keys, and the entry's numbers are unchanged.
C9_ResultIsRequestedService ==
    (InProcess /\ pc = "done") =>
        /\ result.ok
        /\ IsDict(result.val)
        /\ Len(result.val.v) = 1
        /\ <<result.val.v[1].k>> = service_name_to_extract.v
        /\ HasServicesSequence(data_after_merge_keys)
        /\ \E n \in 1..Len(ServicesList(data_after_merge_keys).v) :
              LET entry == ServicesList(data_after_merge_keys).v[n]
                  value == result.val.v[1].val
              IN /\ NamedAs(entry, service_name_to_extract)
                 /\ target_service_config = entry
                 /\ IsDict(value)
                 /\ KeysP(value.v) = KeysP(entry.v)
                 /\ \A key \in KeysP(entry.v) :
                       Get(entry, key).t = "int" => Get(value, key) = Get(entry, key)

\* C9: the requested service was returned from behind an entry of another name
C9_SecondEntryReturned ==
    /\ InProcess /\ pc = "done"
    /\ Len(ServicesList(data_after_merge_keys).v) >= 2
    /\ ~NamedAs(ServicesList(data_after_merge_keys).v[1], service_name_to_extract)
    /\ HasKey(ServicesList(data_after_merge_keys).v[1], "name")
    /\ result.ok

\* line 132 read as a selection: the names of the entries that have one
NamesListed(services_list) ==
    LET named == SelectSeq(services_list,
                           LAMBDA entry : IsDict(entry) /\ HasKey(entry, "name"))
    IN [n \in 1..Len(named) |-> Get(named[n], "name")]

\* C10: once the services sequence has been searched, if none of its entries
\* has the requested name the call has raised a ValueError that lists the names
\* of all entries that have one, and there is no result.
C10_AbsentNameRaisesWithNames ==
    (InProcess /\ data_after_merge_keys # Unset /\ pc # "extract"
     /\ HasServicesSequence(data_after_merge_keys)
     /\ \A n \in 1..Len(ServicesList(data_after_merge_keys).v) :
           ~NamedAs(ServicesList(data_after_merge_keys).v[n], service_name_to_extract))
        => /\ pc = "raised"
           /\ ~result.ok
           /\ result.exc = "ValueError"
           /\ result.why = "service_not_found"
           /\ result.info = NamesListed(ServicesList(data_after_merge_keys).v)

\* C10: an absent name was asked of a sequence with two named entries
C10_AbsentNameAmongTwo ==
    /\ InProcess /\ pc = "raised"
    /\ result.why = "service_not_found"
    /\ Len(result.info) >= 2
    /\ service_name_to_extract = Str(<<"Z">>)

\* some token of the tree does not resolve in the context
HasUnresolvableToken(tree, records) ==
    \E path \in TreePaths(tree) : ~Resolves(records, path)

\* C11 as stated: substitution covers the whole composed document, so a run
\* that returns has left no token anywhere in the document that fails to
\* resolve in the records of the selected service.
C11_ForeignTokenFailsRun ==
    (InProcess /\ pc = "done")
        => ~HasUnresolvableToken(data_after_merge_keys, records_context)

\* C11 amended: substitution covers the selected service entry only, with its
\* records as context: the first pass starts from the entry, a missing path
\* that is reported is one the entry leads to, and a run whose entry has only
\* tokens that resolve to values without tokens does not fail in substitution,
\* whatever tokens the rest of the document has.
C11_SubstitutionScopedToEntry ==
    (InProcess /\ target_service_config # Unset) =>
        /\ (pc = "substitute" /\ i = 0) => processed_data = target_service_config
        /\ (pc = "raised" /\ result.exc = "PlaceholderNotFoundError")
              => result.info \in Reach(records_context, TreePaths(target_service_config))
        /\ TokensResolveToPlainValues(target_service_config, records_context)
              => pc # "raised"
        /\ pc = "done" => result.val.v[1].val = processed_data

\* C11: a run returned although another entry of the document has a token that
\* does not resolve in the records of the selected service
C11_ForeignTokenIgnored ==
    /\ InProcess /\ pc = "done"
    /\ HasUnresolvableToken(data_after_merge_keys, records_context)
    /\ ~HasUnresolvableToken(target_service_config, records_context)

(***************************************************************************)
(* Properties of merge_env_configs                                         *)
(***************************************************************************)
MapBuilt == MissingRoot(disk) = "none" /\ pc # "merge_env_configs"
FilesOf(tree) == {path \in DOMAIN tree : tree[path] # Directory}

\* C12: the map merge_env_configs returns has one key for each relative path
\* that is a file in the global tree or in the environment tree and no other
\* key; a path that is a file in the environment tree is bound to that file,
\* any other to the global tree's file; scanning the environment tree into the
\* map once more, in any order, leaves the map as it is.
C12_OverlayUnionEnvWins ==
    MapBuilt =>
        /\ KeysP(merged_config_map) = FilesOf(disk.global) \cup FilesOf(disk.env)
        /\ Len(merged_config_map) = Cardinality(KeysP(merged_config_map))
        /\ \A path \in KeysP(merged_config_map) :
              MapGet(path) = IF path \in FilesOf(disk.env) THEN Loc("env", path)
                             ELSE Loc("global", path)
        /\ \A env_scan \in ScanOrders(disk.env) :
              ScanInto(merged_config_map, disk, "env", env_scan) = merged_config_map

\* C12: a path of both trees is bound to the environment's file, a path of the
\* environment alone is a key, and a directory is not
C12_EnvFileOverridesGlobal ==
    /\ InProcess /\ MapBuilt
    /\ PathA \in FilesOf(disk.global) \cap FilesOf(disk.env)
    /\ MapGet(PathA) = Loc("env", PathA)
    /\ MapGet(PathMain) = Loc("global", PathMain)
    /\ InMap(PathEnvOnly)
    /\ ~InMap(PathConf)

(***************************************************************************)
(* Determinism of process_config_package                                   *)
(***************************************************************************)
Finished == InProcess /\ pc \in {"done", "raised"}
\* the errors whose message prints list(merged_config_map.keys())
ListsMapKeys == pc = "raised" /\ result.why \in {"main_file_missing", "file_not_in_map"}
\* the map a run builds when the two directory scans enumerate in these orders
MapUnder(global_scan, env_scan) == merge_env_configs(disk, global_scan, env_scan)
SameLookups(map) ==
    /\ KeysP(map) = KeysP(merged_config_map)
    /\ \A path \in KeysP(map) : GetP(map, path) = MapGet(path)

\* C13 as stated: whatever the order in which the two directory scans
\* enumerate, the run has the same map lookups and so the same result, and
\* an error it raises is the same down to the text that lists the map's keys.
C13_SameOutcomeUnderEveryScan ==
    Finished =>
        \A global_scan \in ScanOrders(disk.global), env_scan \in ScanOrders(disk.env) :
            IF ~MapUnder(global_scan, env_scan).ok
            THEN result = MapUnder(global_scan, env_scan)
            ELSE /\ SameLookups(MapUnder(global_scan, env_scan).val)
                 /\ ListsMapKeys =>
                       result.info.keys
                         = [n \in 1..Len(MapUnder(global_scan, env_scan).val) |->
                               MapUnder(global_scan, env_scan).val[n].k]

\* C13 amended: whatever the order in which the two directory scans enumerate,
\* the run finds the same keys bound to the same files, which is all that the
\* result and the kind and subject of an error are computed from; only the
\* order in which an error message lists the keys of the map follows the scan.
C13_SameLookupsUnderEveryScan ==
    Finished =>
        \A global_scan \in ScanOrders(disk.global), env_scan \in ScanOrders(disk.env) :
            IF ~MapUnder(global_scan, env_scan).ok
            THEN result = MapUnder(global_scan, env_scan)
            ELSE /\ SameLookups(MapUnder(global_scan, env_scan).val)
                 /\ ListsMapKeys =>
                       /\ Len(result.info.keys) = Len(MapUnder(global_scan, env_scan).val)
                       /\ {result.info.keys[n] : n \in 1..Len(result.info.keys)}
                            = KeysP(MapUnder(global_scan, env_scan).val)

\* C13: a run failed with an error that lists the keys of a map of two files,
\* which the scan of the global tree can enumerate in either order
C13_KeysListedUnderSeveralScans ==
    /\ Finished /\ ListsMapKeys
    /\ Len(result.info.keys) >= 2
    /\ Cardinality(ScanOrders(disk.global)) > 1

(***************************************************************************)
(* Properties of resolve_refs: what it returns and what it raises          *)
(***************************************************************************)
ResolveReturned ==
    /\ call \in {"resolve_refs", "process_config_package"}
    /\ resolved_data_from_main_file # Unset

\* C14: a tree that resolve_refs has returned has no `$ref` key in any of its
\* mappings, at any depth, also in the parts that were fetched from referenced
\* files; this is the tree the merge-key stage is given.
C14_NoRefKeyInResolvedTree ==
    ResolveReturned => ~ContainsKey(resolved_data_from_main_file, REF_KEY)

\* C14: the call returned after expanding a reference whose fetched content
\* had a reference of its own, written in another file than the base file
C14_NestedReferenceReplaced ==
    /\ call = "resolve_refs" /\ pc = "done"
    /\ BaseRefNodes # {}
    /\ \E node \in visited_refs : node[1] # main_config_file
    /\ ~ContainsKey(result.val, REF_KEY)

(***************************************************************************)
(* Failures of process_config_package                                      *)
(***************************************************************************)
\* C15: when value/global or the environment's directory is not a directory,
\* the run does nothing but raise FileNotFoundError for the absent root, the
\* global one if both are absent: no file has been entered in the map, and
\* nothing has been loaded, resolved or composed.
C15_MissingRootFailsFirst ==
    (InProcess /\ disk.dirs # {"global", "env"}) =>
        /\ pc \in {"merge_env_configs", "raised"}
        /\ merged_config_map = <<>>
        /\ visited_refs = {}
        /\ resolved_data_from_main_file = Unset
        /\ data_after_merge_keys = Unset
        /\ pc = "raised" =>
              /\ result.exc = "FileNotFoundError"
              /\ result.info = IF "global" \notin disk.dirs THEN "global" ELSE "env"

\* C15: both roots are absent and the global one was reported
C15_BothRootsAbsent ==
    /\ InProcess /\ pc = "raised"
    /\ disk.dirs = {}
    /\ result.exc = "FileNotFoundError" /\ result.info = "global"

\* what the stage the run is at raises, if it raises
StageOutcome ==
    CASE pc = "merge_env_configs" -> merge_env_configs(disk, <<>>, <<>>)
      [] pc = "resolve_refs" ->
            IF ~InMap(main_config_file)
            THEN Raised("ValueError", "main_file_missing",
                        [file |-> main_config_file, keys |-> MapKeys])
            ELSE resolve_refs(main_config_file)
      [] pc = "merge_keys" -> merge_yaml_with_merge_keys(resolved_data_from_main_file)
      [] pc = "extract" -> ExtractTarget(data_after_merge_keys, service_name_to_extract)
      [] pc = "substitute" ->
            IF i < max_iterations
            THEN _substitute_in_block_one_pass(processed_data, records_context)
            ELSE ExhaustedOutcome(processed_data)
      [] OTHER -> Returned(Null)
StageFails ==
    /\ pc = "merge_env_configs" => MissingRoot(disk) # "none"
    /\ ~StageOutcome.ok

\* C16: in a run of process_config_package, a stage that raises ends the run:
\* the run is then in its raised state with exactly the exception of that
\* stage as its outcome and no result, the outputs of the stages are left as
\* they were, and from the raised state no stage runs any more.
C16_FailsClosed ==
    [][InProcess =>
          /\ pc = "raised" => FALSE
          /\ StageFails =>
                /\ pc' = "raised"
                /\ ~result'.ok
                /\ result'.exc = StageOutcome.exc
                /\ result'.why = StageOutcome.why
                /\ result'.info = StageOutcome.info
                /\ UNCHANGED <<merged_config_map, resolved_data_from_main_file,
                               data_after_merge_keys, target_service_config,
                               records_context, processed_data>>]_vars

\* C16: the last stage failed after the earlier ones had produced their outputs
C16_LateStageFailure ==
    /\ InProcess /\ pc = "raised"
    /\ data_after_merge_keys # Unset /\ target_service_config # Unset
    /\ result.exc = "PlaceholderNotFoundError"
    /\ ~result.ok

(***************************************************************************)
(* Composition errors of merge_yaml_with_merge_keys                        *)
(***************************************************************************)
\* some mapping of the tree, at any depth, has a `<<:` key whose value is not
\* a sequence or is a sequence with an element that is not a mapping
RECURSIVE HasMalformedMergeKey(_)
HasMalformedMergeKey(tree) ==
    CASE tree.t = "map" ->
            \/ /\ HasKeyP(tree.v, MERGE_KEY)
               /\ \/ ~IsList(GetP(tree.v, MERGE_KEY))
                  \/ \E n \in 1..Len(GetP(tree.v, MERGE_KEY).v) :
                        ~IsDict(GetP(tree.v, MERGE_KEY).v[n])
            \/ \E n \in 1..Len(tree.v) : HasMalformedMergeKey(tree.v[n].val)
      [] tree.t = "seq" -> \E n \in 1..Len(tree.v) : HasMalformedMergeKey(tree.v[n])
      [] OTHER -> FALSE

\* C17: merge_yaml_with_merge_keys, called on a tree in which at some depth a
\* `<<:` key has a value that is not a sequence, or a `<<:` sequence has an
\* element that is not a mapping, raises ValueError and returns nothing.
C17_MalformedMergeKeyRaises ==
    (call = "merge_yaml_with_merge_keys" /\ pc # "merge_keys"
     /\ HasMalformedMergeKey(resolved_data_from_main_file))
        => /\ pc = "raised"
           /\ result.exc = "ValueError"

\* C17: the case: the `<<:` key of a fragment has a value that is no sequence,
\* and the call returned
C17_MalformedKeyInFragmentCase ==
    /\ MergeReturned
    /\ \E n \in 1..Len(Get(MergeNodeOf(resolved_data_from_main_file), MERGE_KEY).v) :
          LET frag == Get(MergeNodeOf(resolved_data_from_main_file), MERGE_KEY).v[n]
          IN HasKey(frag, MERGE_KEY) /\ ~IsList(Get(frag, MERGE_KEY))

(***************************************************************************)
(* Reference errors of resolve_refs                                        *)
(***************************************************************************)
\* the two parts of a $ref value, and the logical path its file part names
\* when it is written in the file ctx
FilePartOf(ref_value) ==
    StripQuotes(IF FirstIndex(ref_value, "#") = 0 THEN ref_value
                ELSE SubSeq(ref_value, 1, FirstIndex(ref_value, "#") - 1))
PointerPartOf(ref_value) ==
    StripQuotes(IF FirstIndex(ref_value, "#") = 0 THEN <<>>
                ELSE SubSeq(ref_value, FirstIndex(ref_value, "#") + 1, Len(ref_value)))
TargetOf(node) == ReferencedFile(FilePartOf(node[2]), node[1])
PointerMisses(doc, pointer_part) ==
    \/ Segments(pointer_part)[1] # ""
    \/ WalkPointer(doc, Tail(Segments(pointer_part))) = PointerFailure
TargetMissing(node) == TargetOf(node).abs \/ ~InMap(TargetOf(node).comps)
PointerUnresolved(node) ==
    /\ ~TargetMissing(node)
    /\ PointerPartOf(node[2]) # <<>>
    /\ PointerMisses(FileOf(MapGet(TargetOf(node).comps)), PointerPartOf(node[2]))

\* C18: when a reference that the walk of resolve_refs leads to names a
\* logical path that is not a key of the map, or has a pointer that does not
\* resolve in the document of its target (a key is absent, an index is out of
\* range, or the node reached is a scalar the segment cannot index), the call
\* raises RefResolutionError and returns nothing; a file-not-found error
\* carries the attempted path with the reference and the file it is written
\* in, a pointer error the pointer and the file it was applied to.
C18_UnresolvableReferenceRaises ==
    (call = "resolve_refs" /\ pc # "resolve_refs"
     /\ \E node \in ReachableRefNodes : TargetMissing(node) \/ PointerUnresolved(node))
        => /\ pc = "raised"
           /\ ~result.ok
           /\ result.exc = "RefResolutionError"
           /\ result.why = "file_not_in_map" =>
                 \E node \in ReachableRefNodes :
                     /\ TargetMissing(node)
                     /\ result.info.path = TargetOf(node).comps
                     /\ result.info.ref = node[2] /\ result.info.file = node[1]
           /\ result.why = "pointer_failed" =>
                 \E node \in ReachableRefNodes :
                     /\ PointerUnresolved(node)
                     /\ result.info.pointer = PointerPartOf(node[2])
                     /\ result.info.path = TargetOf(node).comps
                     /\ result.info.ref = node[2] /\ result.info.file = node[1]

\* C18: a pointer went through a string scalar with a segment that is no index
C18_PointerThroughScalarReported ==
    /\ call = "resolve_refs" /\ pc = "raised"
    /\ result.why = "pointer_failed"
    /\ result.info.pointer = <<"/", "v", "/", "k">>
    /\ result.info.path = PathBD

(***************************************************************************)
(* The substitution context and the services entry                         *)
(***************************************************************************)
RecordsPath == << <<"properties">>, <<"configs">>, <<"private">>, <<"records">> >>
Selected == InProcess /\ target_service_config # Unset

\* C19: once an entry is selected, the substitution context is the value at
\* properties.configs.private.records of the entry as it was selected, if every
\* step of that path is a key of a mapping and the value is a mapping, and is
\* the empty mapping otherwise; the run goes on to substitution and can then
\* fail only with a placeholder error.
C19_RecordsContextOrEmpty ==
    Selected =>
        /\ records_context =
              IF /\ WalkKeys(target_service_config, RecordsPath) # NOT_FOUND
                 /\ IsDict(WalkKeys(target_service_config, RecordsPath))
              THEN WalkKeys(target_service_config, RecordsPath)
              ELSE Dict(<<>>)
        /\ pc \in {"substitute", "output", "done", "raised"}
        /\ pc = "raised" => result.exc \in {"PlaceholderNotFoundError",
                                            "CircularPlaceholderDependencyError"}

\* C19: the path ends in a value that is not a mapping and the context is empty
C19_RecordsNotAMapping ==
    /\ Selected
    /\ WalkKeys(target_service_config, RecordsPath) # NOT_FOUND
    /\ ~IsDict(WalkKeys(target_service_config, RecordsPath))
    /\ records_context = Dict(<<>>)

Searched == InProcess /\ data_after_merge_keys # Unset /\ pc # "extract"
RaisedValueError(why) ==
    /\ pc = "raised" /\ ~result.ok
    /\ result.exc = "ValueError" /\ result.why = why
    /\ target_service_config = Unset
\* the document has no `services` value that is a sequence or a mapping
ServicesUnusable(data) ==
    \/ ~IsDict(data)
    \/ ~HasKey(data, "services")
    \/ ~(IsList(Get(data, "services")) \/ IsDict(Get(data, "services")))
\* the entries the lookup goes through
EntriesOf(data) ==
    IF IsDict(Get(data, "services")) THEN <<Get(data, "services")>>
    ELSE Get(data, "services").v
HasNameField(entry) == IsDict(entry) /\ HasKey(entry, "name")

\* C20 as stated: a document that is not a mapping, has no `services` key, has
\* a `services` value that is neither a sequence nor a mapping, or has an entry
\* that is not a mapping with a `name`, makes the run fail with a ValueError of
\* the service lookup.
C20_MalformedServicesFail ==
    (Searched
     /\ \/ ServicesUnusable(data_after_merge_keys)
        \/ \E n \in 1..Len(EntriesOf(data_after_merge_keys)) :
              ~HasNameField(EntriesOf(data_after_merge_keys)[n]))
        => pc = "raised" /\ result.exc = "ValueError" /\ target_service_config = Unset

\* C20 amended: a document that is not a mapping or has no `services` key, or
\* whose `services` value is neither a sequence nor a mapping, makes the run
\* fail with a ValueError before any entry is selected; a lone mapping is
\* searched as a sequence of one entry; an entry that is not a mapping with a
\* `name` is passed over, and the run selects the first entry with the
\* requested name or fails because there is none.
C20_ServicesShapeChecked ==
    Searched =>
        IF ServicesUnusable(data_after_merge_keys)
        THEN \/ RaisedValueError("services_missing")
             \/ RaisedValueError("services_not_list")
        ELSE LET entries == EntriesOf(data_after_merge_keys)
                 hits == {n \in 1..Len(entries) :
                             NamedAs(entries[n], service_name_to_extract)}
             IN IF hits = {}
                THEN RaisedValueError("service_not_found")
                ELSE /\ target_service_config
                          = entries[CHOOSE n \in hits : \A m \in hits : n <= m]
                     /\ pc = "raised" => result.exc # "ValueError"

\* C20: an entry that is no mapping stood before the entry that was returned
C20_OddEntryPassedOver ==
    /\ InProcess /\ pc = "done"
    /\ IsList(Get(data_after_merge_keys, "services"))
    /\ ~HasNameField(Get(data_after_merge_keys, "services").v[1])

(***************************************************************************)
(* The parts of a $ref value                                               *)
(***************************************************************************)
\* a part of a $ref value without the quote characters around it
Unquoted(s) ==
    IF \A n \in 1..Len(s) : IsQuote(s[n]) THEN <<>>
    ELSE LET first == CHOOSE n \in 1..Len(s) :
                          ~IsQuote(s[n]) /\ \A m \in 1..(n - 1) : IsQuote(s[m])
             last == CHOOSE n \in 1..Len(s) :
                         ~IsQuote(s[n]) /\ \A m \in (n + 1)..Len(s) : IsQuote(s[m])
         IN SubSeq(s, first, last)
BeforeHash(ref_value) ==
    IF FirstIndex(ref_value, "#") = 0 THEN ref_value
    ELSE SubSeq(ref_value, 1, FirstIndex(ref_value, "#") - 1)
AfterHash(ref_value) ==
    IF FirstIndex(ref_value, "#") = 0 THEN <<>>
    ELSE SubSeq(ref_value, FirstIndex(ref_value, "#") + 1, Len(ref_value))

\* the file a $ref value written in the file ctx designates: ctx itself for
\* an empty file part, else the path relative to the directory of ctx
DesignatedFile(ref_value, ctx) ==
    IF Unquoted(BeforeHash(ref_value)) = <<>> THEN ctx
    ELSE ReferencedFile(Unquoted(BeforeHash(ref_value)), ctx).comps
\* what it designates there: the whole document for an empty pointer, else
\* the node the pointer leads to
DesignatedContent(ref_value, ctx) ==
    LET doc == FileOf(MapGet(DesignatedFile(ref_value, ctx)))
        pointer == Segments(Unquoted(AfterHash(ref_value)))
    IN IF Unquoted(AfterHash(ref_value)) = <<>> THEN doc
       ELSE IF pointer[1] # "" THEN PointerFailure
       ELSE WalkPointer(doc, Tail(pointer))

\* a tree with every reference node replaced by what it designates; a
\* reference that designates nothing, or itself on the way, is left as Undesignated
Undesignated == [t |-> "undesignated", v |-> <<>>]
RECURSIVE ExpandDesignated(_, _, _)
ExpandDesignated(tree, ctx, chain) ==
    CASE tree.t = "map" /\ HasKeyP(tree.v, REF_KEY) ->
            LET ref == GetP(tree.v, REF_KEY)
            IN IF ~IsStr(ref) \/ <<ctx, ref.v>> \in chain
                  \/ ~InMap(DesignatedFile(ref.v, ctx))
               THEN Undesignated
               ELSE ExpandDesignated(DesignatedContent(ref.v, ctx),
                                     DesignatedFile(ref.v, ctx),
                                     chain \cup {<<ctx, ref.v>>})
      [] tree.t = "map" /\ ~HasKeyP(tree.v, REF_KEY) ->
            Dict([n \in 1..Len(tree.v) |->
                     KV(tree.v[n].k, ExpandDesignated(tree.v[n].val, ctx, chain))])
      [] tree.t = "seq" ->
            List([n \in 1..Len(tree.v) |-> ExpandDesignated(tree.v[n], ctx, chain)])
      [] OTHER -> tree

\* C21: a $ref value is split on its first `#`; with the quote characters
\* around both parts ignored, an empty file part designates the file the
\* reference is written in (for fetched content the referenced file, not the
\* base file), and a missing `#` or an empty pointer the whole document of the
\* target: a tree returned is the base document with every reference replaced
\* by what it designates so, and a file or pointer error names that file.
C21_RefPartsDesignateTarget ==
    ResolveFinished =>
        /\ result.ok =>
              result.val = ExpandDesignated(FileOf(MapGet(main_config_file)),
                                            main_config_file, {})
        /\ (~result.ok /\ result.why \in {"file_not_in_map", "pointer_failed"}) =>
              result.info.path = DesignatedFile(result.info.ref, result.info.file)

\* C21: a.yaml's x was "b/c.yaml"# (quoted, no pointer): all of b/c.yaml was
\* fetched, and its y, written as #/z, was taken from b/c.yaml itself
C21_QuotedWholeFileWithLocalRef ==
    /\ call = "resolve_refs" /\ pc = "done"
    /\ main_config_file = PathA
    /\ Get(disk.global[PathA], "x") = Ref(<<"\"", "b", "/", "c.yaml", "\"", "#">>)
    /\ Get(disk.global[PathA], "y") = Num("1")
    /\ Get(disk.global[PathC], "y") = Ref(<<"#", "/", "z">>)
    /\ Get(disk.global[PathC], "z") = Num("2")
    /\ result.val = Dict(<<KV("x", Dict(<<KV("y", Num("2")), KV("z", Num("2"))>>)),
                           KV("y", Num("1"))>>)

(***************************************************************************)
(* Properties of _deep_merge_dicts                                         *)
(***************************************************************************)
\* whether out is target with source merged over it, key by key: both values
\* mappings, merged in turn; else the source's value if it has the key, else
\* the target's
RECURSIVE MergedKeyByKey(_, _, _)
MergedKeyByKey(out, target, source) ==
    /\ IsDict(out)
    /\ KeysP(out.v) = KeysP(target.v) \cup KeysP(source.v)
    /\ \A key \in KeysP(out.v) :
          IF HasKey(source, key)
          THEN IF HasKey(target, key) /\ IsDict(Get(target, key))
                  /\ IsDict(Get(source, key))
               THEN MergedKeyByKey(Get(out, key), Get(target, key), Get(source, key))
               ELSE Get(out, key) = Get(source, key)
          ELSE Get(out, key) = Get(target, key)

\* the calls _deep_merge_dicts(target, source) that compose a merge node with
\* one fragment and sibling keys (the fragment under the siblings), or with
\* two fragments and no sibling (the second under the first)
DeepMergeCalls(node) ==
    LET frags == Get(node, MERGE_KEY)
        siblings == Dict(PopP(node.v, MERGE_KEY))
    IN IF ~IsList(frags) \/ ContainsKey(frags, MERGE_KEY)
          \/ ContainsKey(siblings, MERGE_KEY)
          \/ \E n \in 1..Len(frags.v) : ~IsDict(frags.v[n])
       THEN {}
       ELSE IF Len(frags.v) = 1
       THEN {[target |-> frags.v[1], source |-> siblings]}
       ELSE IF Len(frags.v) = 2 /\ siblings.v = <<>>
       THEN {[target |-> frags.v[2], source |-> frags.v[1]]}
       ELSE {}

\* C22: _deep_merge_dicts(target, source) gives, for each key, the recursive
\* merge when both sides hold mappings, the source's value for every other
\* combination of types (a sequence replaces a sequence as a whole), and the
\* target's value for a key the source does not have.
C22_DeepMergeKeyByKey ==
    MergeReturned =>
        \A merge \in DeepMergeCalls(MergeNodeOf(resolved_data_from_main_file)) :
            MergedKeyByKey(MergeNodeOf(result.val), merge.target, merge.source)

\* C22: mappings under x were merged, and for y the fragment's value was kept
C22_MappingsMergedRecursively ==
    /\ MergeReturned
    /\ resolved_data_from_main_file =
          Dict(<<KV(MERGE_KEY,
                    List(<<Dict(<<KV("x", Dict(<<KV("b", Num("2"))>>)),
                                  KV("y", Num("2"))>>)>>)),
                 KV("x", Dict(<<KV("c", Num("3"))>>))>>)
    /\ result.val = Dict(<<KV("x", Dict(<<KV("b", Num("2")), KV("c", Num("3"))>>)),
                           KV("y", Num("2"))>>)

(***************************************************************************)
(* Indirection among the context values                                    *)
(***************************************************************************)
Max(S) == CHOOSE n \in S : \A m \in S : m <= n
\* every path the tokens of the tree lead to resolves, and none is on a cycle
AcyclicAndResolving(tree, records) ==
    \A path \in Reach(records, TreePaths(tree)) :
        Resolves(records, path) /\ ~OnCycle(records, path)
\* the depth of nesting: 1 for a token whose value has no token, one more for
\* each value with a token on the way
RECURSIVE PathDepth(_, _)
PathDepth(records, path) ==
    1 + Max({0} \cup {PathDepth(records, dep) : dep \in DepsOf(records, path)})
NestingDepth(tree, records) ==
    Max({0} \cup {PathDepth(records, path) : path \in TreePaths(tree)})

IsBrace(c) == c = "{" \/ c = "}"
\* no brace of the string lies outside its tokens or inside a token's path
BracesOnlyAroundTokens(s) ==
    \A n \in 1..Len(s) :
        IsBrace(s[n]) =>
            \E m \in 1..Len(FindIter(s, 1)) :
                \/ n \in {FindIter(s, 1)[m].from, FindIter(s, 1)[m].from + 1}
                \/ n \in {FindIter(s, 1)[m].to - 1, FindIter(s, 1)[m].to}
\* this holds of every string of the tree and of the string form of every
\* value that the tokens lead to
NoStrayBraces(tree, records) ==
    /\ \A n \in 1..Len(StringsOf(tree)) : BracesOnlyAroundTokens(StringsOf(tree)[n])
    /\ \A path \in Reach(records, TreePaths(tree)) :
          Resolves(records, path) =>
              BracesOnlyAroundTokens(PyStr(_get_value_by_path(records, path)))

SubstituteFinished == call = "substitute_placeholders" /\ pc \in {"done", "raised"}

\* C23 (as stated): when every token path resolves and the indirection among
\* the context values is acyclic with a nesting depth of at most
\* max_iterations, substitute_placeholders returns a tree without tokens and
\* does not raise.
C23_AcyclicIndirectionReturns ==
    (SubstituteFinished
     /\ AcyclicAndResolving(target_service_config, records_context)
     /\ NestingDepth(target_service_config, records_context) <= max_iterations)
        => /\ pc = "done"
           /\ result.ok
           /\ ~_contains_placeholders(result.val)

\* C23 (amended): the same, for trees and context values in which braces
\* occur only as the delimiters of tokens, so that no replacement forms a
\* token together with the text around it; also when the depth equals
\* max_iterations and every pass of the budget made a replacement.
C23_AcyclicIndirectionReturnsWithoutStrayBraces ==
    (SubstituteFinished
     /\ AcyclicAndResolving(target_service_config, records_context)
     /\ NoStrayBraces(target_service_config, records_context)
     /\ NestingDepth(target_service_config, records_context) <= max_iterations)
        => /\ pc = "done"
           /\ result.ok
           /\ ~_contains_placeholders(result.val)

\* C23: k went {{a}} -> {{b}} -> {{c}} -> u in three passes with a budget of
\* three, and the call returned after the loop had run out
C23_DepthEqualsBudget ==
    /\ call = "substitute_placeholders" /\ pc = "done"
    /\ max_iterations = 3 /\ i = 3
    /\ Get(target_service_config, "k") = Str(Tok(<<"a">>))
    /\ NestingDepth(target_service_config, records_context) = 3
    /\ NoStrayBraces(target_service_config, records_context)
    /\ Get(result.val, "k") = Str(<<"u">>)

(***************************************************************************)
(* What substitute_placeholders returns                                    *)
(***************************************************************************)
\* the string has a `{{`, then one character or more that is no `}`, then `}}`
HasTokenText(s) ==
    \E p \in 1..Len(s), q \in 1..Len(s) :
        /\ p + 3 <= q /\ q + 1 <= Len(s)
        /\ s[p] = "{" /\ s[p + 1] = "{"
        /\ s[q] = "}" /\ s[q + 1] = "}"
        /\ \A n \in (p + 2)..(q - 1) : s[n] # "}"
SubstituteReturned ==
    \/ call = "substitute_placeholders" /\ pc = "done"
    \/ InProcess /\ pc \in {"output", "done"}

\* C24: a tree that substitute_placeholders returns, after a pass without a
\* replacement or after max_iterations passes (none, if max_iterations is 0),
\* has no `{{...}}` token in any of its string values.
C24_ReturnedTreeHasNoToken ==
    SubstituteReturned =>
        \A n \in 1..Len(StringsOf(processed_data)) :
            ~HasTokenText(StringsOf(processed_data)[n])

\* C24: the call returned from a pass that replaced nothing, after passes
\* that did, with budget left
C24_ReturnedAtFixedPoint ==
    /\ call = "substitute_placeholders" /\ pc = "done"
    /\ i >= 2 /\ i < max_iterations
    /\ _contains_placeholders(target_service_config)
    /\ result.val = processed_data

(***************************************************************************)
(* Properties of the walk of resolve_refs                                  *)
(***************************************************************************)
\* every (file, $ref value) pair written anywhere in the documents of the map
RECURSIVE RefPairsIn(_, _)
RefPairsIn(tree, file) ==
    CASE tree.t = "map" ->
            (IF HasKeyP(tree.v, REF_KEY) /\ IsStr(GetP(tree.v, REF_KEY))
             THEN {<<file, GetP(tree.v, REF_KEY).v>>} ELSE {})
            \cup UNION {RefPairsIn(tree.v[n].val, file) : n \in 1..Len(tree.v)}
      [] tree.t = "seq" -> UNION {RefPairsIn(tree.v[n], file) : n \in 1..Len(tree.v)}
      [] OTHER -> {}
AllRefPairs ==
    UNION {RefPairsIn(FileOf(MapGet(path)), path) : path \in KeysP(merged_config_map)}
\* the steps the walk of a tree takes from its call to its return, a
\* reference node counted as the one step that enters it
RECURSIVE StepsOf(_), StepsOfAll(_)
StepsOfAll(items) ==
    IF items = <<>> THEN 0 ELSE StepsOf(Head(items)) + StepsOfAll(Tail(items))
StepsOf(tree) ==
    IF IsDict(tree) /\ HasKeyP(tree.v, REF_KEY) THEN 1
    ELSE IF IsDict(tree) /\ tree.v # <<>>
    THEN Len(tree.v) + 1 + StepsOfAll([n \in 1..Len(tree.v) |-> tree.v[n].val])
    ELSE IF IsList(tree) /\ tree.v # <<>>
    THEN Len(tree.v) + 1 + StepsOfAll(tree.v)
    ELSE 1
\* the steps left for a frame once the value it waits for is there
FrameSteps(frame) ==
    IF frame.kind = "ref" THEN 1
    ELSE Len(frame.rest) + 1
         + StepsOfAll(IF frame.kind = "dict"
                      THEN [n \in 1..Len(frame.rest) |-> frame.rest[n].val]
                      ELSE frame.rest)
RECURSIVE FrameStepsOfAll(_)
FrameStepsOfAll(stack) ==
    IF stack = <<>> THEN 0 ELSE FrameSteps(Head(stack)) + FrameStepsOfAll(Tail(stack))
PendingSteps ==
    (IF walk.now.op = "call" THEN StepsOf(walk.now.data) ELSE 0)
    + FrameStepsOfAll(walk.stack)

\* every node of a tree, and the most steps any content that can be fetched takes
RECURSIVE Subtrees(_)
Subtrees(tree) ==
    {tree} \cup
    CASE tree.t = "map" -> UNION {Subtrees(tree.v[n].val) : n \in 1..Len(tree.v)}
      [] tree.t = "seq" -> UNION {Subtrees(tree.v[n]) : n \in 1..Len(tree.v)}
      [] OTHER -> {}
LargestContent ==
    Max({1} \cup {StepsOf(tree) :
                    tree \in UNION {Subtrees(FileOf(MapGet(path))) :
                                       path \in KeysP(merged_config_map)}})
\* a number that every step of the walk lowers: the pairs not yet expanded
\* weigh more than any content an expansion can add
WalkMeasure ==
    Cardinality(AllRefPairs \ visited_refs) * (LargestContent + 1) + PendingSteps

\* C25: a call of resolve_refs comes to its end, returning or raising, for
\* every namespace drawn (cyclic, with missing targets, with a `$ref` that is
\* no string): each step of the walk ends the call or lowers a natural
\* number, so no walk goes on forever; the expansions in progress at any
\* moment are of distinct (walk-context file, $ref value) pairs, all marked as
\* visited, so they are nested no deeper than there are pairs in the
\* namespace (and never as deep as MaxDepth).
C25_ResolveRefsTerminates ==
    [][(call = "resolve_refs" /\ pc = "walk") =>
          /\ pc' \in {"walk", "done", "raised"}
          /\ pc' = "walk" => WalkMeasure' < WalkMeasure
          /\ LET chain == Expanding(walk'.stack)
             IN /\ \A n, m \in 1..Len(chain) : chain[n] = chain[m] => n = m
                /\ \A n \in 1..Len(chain) : chain[n] \in visited_refs' \cap AllRefPairs
                /\ Len(chain) <= Cardinality(AllRefPairs)
                /\ Len(chain) < MaxDepth]_vars

\* C25: a cycle through both files was cut when its first pair came up again,
\* two expansions deep
C25_CycleCutTwoDeep ==
    /\ call = "resolve_refs" /\ pc = "raised" /\ RaisedCircular
    /\ Len(Expanding(walk.stack)) = 2
    /\ result.info = Expanding(walk.stack)[1]

\* what a first call of resolve_refs with this base file ends with
FirstCallOutcome ==
    LET r == resolve_refs(main_config_file)
    IN [result |-> IF r.ok THEN Returned(r.val) ELSE Raised(r.exc, r.why, r.info),
        visited |-> r.visited]

\* C26: every call of resolve_refs starts its walk with an empty visited set,
\* and ends as a first call with the same base file ends, with the same
\* markers, whatever calls were made before it and however they ended: no
\* circular-reference error comes from the markers of an earlier call.
C26_CallsIndependent ==
    /\ (call = "resolve_refs" /\ pc = "walk" /\ walk.stack = <<>>
        /\ walk.now.op = "call") => visited_refs = {}
    /\ (ResolveFinished) =>
          /\ result = FirstCallOutcome.result
          /\ visited_refs = FirstCallOutcome.visited

\* C26: a second call with the same base file returned, after a first call
\* that had expanded the same references
C26_SecondCallReturned ==
    /\ call = "resolve_refs" /\ pc = "done"
    /\ Len(calls) = 1
    /\ calls[1].main = main_config_file
    /\ calls[1].visited # {} /\ calls[1].visited = visited_refs


(***************************************************************************)
(* The stages leave what they are given as it was                          *)
(***************************************************************************)
\* the objects reached from x
RECURSIVE ObjectsFrom(_, _)
ObjectsFrom(heap, x) ==
    IF x.t # "at" THEN {}
    ELSE {x.v} \cup UNION {ObjectsFrom(heap, IF heap[x.v].t = "map"
                                             THEN heap[x.v].v[n].val ELSE heap[x.v].v[n]) :
                            n \in 1..Len(heap[x.v].v)}

\* C27: a step of resolve_refs leaves the namespace map as it was; a call of
\* merge_yaml_with_merge_keys, returning or raising, leaves the tree it was
\* given as it was at every depth, and no dict or list of what it returns is
\* an object of that tree (what it returns is the tree data_after_merge_keys
\* records); a pass of substitute_placeholders, and its end, leave the tree
\* and the context it was given as they were.
C27_StagesLeaveInputsUnchanged ==
    [][/\ pc = "resolve_refs" => merged_config_map' = merged_config_map
       /\ pc = "merge_keys" =>
             /\ resolved_data_from_main_file' = resolved_data_from_main_file
             /\ LET held == Store(<<>>, resolved_data_from_main_file)
                    run == MergeKeysOnHeap(held.heap, held.x)
                IN IF run.ok
                   THEN /\ ObjectsFrom(run.heap, run.x) \cap ObjectsFrom(run.heap, held.x) = {}
                        /\ data_after_merge_keys' = Fetch(run.heap, run.x)
                   ELSE pc' = "raised" /\ result'.why = run.why
       /\ pc = "substitute" =>
             /\ target_service_config' = target_service_config
             /\ records_context' = records_context]_vars

\* C27: a tree with a `<<:` whose fragment holds a mapping was composed, the
\* caller still holds it with its `<<:`
C27_MergeNodeStillHeld ==
    /\ call = "merge_yaml_with_merge_keys" /\ pc = "done"
    /\ IsDict(resolved_data_from_main_file)
    /\ HasKeyP(resolved_data_from_main_file.v, MERGE_KEY)
    /\ \E n \in 1..Len(Get(resolved_data_from_main_file, MERGE_KEY).v) :
           \E m \in 1..Len(Get(resolved_data_from_main_file, MERGE_KEY).v[n].v) :
              IsDict(Get(resolved_data_from_main_file, MERGE_KEY).v[n].v[m].val)
    /\ ~ContainsKey(data_after_merge_keys, MERGE_KEY)


(***************************************************************************)
(* Properties texts                                                        *)
(***************************************************************************)
\* the lines of the text that are no comment, not blank, and have a key
\* before a "="; the key and the value such a line is written with
PropertyLines ==
    SelectSeq(SplitLines(<<>>, properties_content),
              LAMBDA line : /\ LStrip(line) # <<>>
                            /\ Head(LStrip(line)) \notin {"#", "!"}
                            /\ FirstIndex(line, "=") > 1)
WrittenKey(line) == SplitDots(<<>>, Strip(SubSeq(line, 1, FirstIndex(line, "=") - 1)))
WrittenValue(line) == Strip(SubSeq(line, FirstIndex(line, "=") + 1, Len(line)))
\* what following the segments from the root yields
RECURSIVE Follow(_, _)
Follow(tree, keys) ==
    IF keys = <<>> THEN tree
    ELSE IF IsDict(tree) /\ HasKeyP(tree.v, Head(keys))
         THEN Follow(Get(tree, Head(keys)), Tail(keys))
         ELSE Undesignated
ConvertFinished == call = "convert_properties_to_dict" /\ pc \in {"done", "raised"}

\* C28: convert_properties_to_dict returns, for every properties text, a
\* mapping in which following the segments of each key written yields the
\* value string of the last line written with that key, also when one key
\* written is a prefix of another.
C28_PropertiesBecomeNestedMapping ==
    ConvertFinished =>
        /\ result.ok
        /\ IsDict(result.val)
        /\ \A n \in 1..Len(PropertyLines) :
              LET last == CHOOSE m \in n..Len(PropertyLines) :
                              /\ WrittenKey(PropertyLines[m]) = WrittenKey(PropertyLines[n])
                              /\ \A later \in (m + 1)..Len(PropertyLines) :
                                     WrittenKey(PropertyLines[later])
                                         # WrittenKey(PropertyLines[n])
              IN Follow(result.val, WrittenKey(PropertyLines[n]))
                     = Str(WrittenValue(PropertyLines[last]))

\* C28: `a=1` followed by `a.b=2` ended in TypeError
C28_PrefixThenLongerKeyRaised ==
    /\ ConvertFinished
    /\ properties_content = <<"a", "=", "1", "\n", "a", ".", "b", "=", "2">>
    /\ ~result.ok /\ result.exc = "TypeError"


(***************************************************************************)
(* Substitution keeps the shape of the tree                                *)
(***************************************************************************)
\* the same keys in the same order and the same lengths at every depth, a
\* string where there was a string, and every other scalar as it was
RECURSIVE SameShape(_, _)
SameShape(before, after) ==
    CASE IsDict(before) ->
             /\ IsDict(after) /\ Len(after.v) = Len(before.v)
             /\ \A n \in 1..Len(before.v) :
                   /\ after.v[n].k = before.v[n].k
                   /\ SameShape(before.v[n].val, after.v[n].val)
      [] IsList(before) ->
             /\ IsList(after) /\ Len(after.v) = Len(before.v)
             /\ \A n \in 1..Len(before.v) : SameShape(before.v[n], after.v[n])
      [] IsStr(before) -> IsStr(after)
      [] OTHER -> after = before

\* C29: the tree substitute_placeholders returns has the shape of the tree it
\* was given: the same keys in the same order, sequences of the same length,
\* strings where strings were and every other scalar unchanged; and a tree
\* none of whose string values has a token is returned as it is whatever its
\* keys are, a key written as a token included, and whatever max_iterations is.
C29_SubstitutionKeepsShape ==
    /\ SubstituteReturned => SameShape(target_service_config, processed_data)
    /\ (SubstituteFinished /\ \A n \in 1..Len(StringsOf(target_service_config)) :
                                  ~HasTokenText(StringsOf(target_service_config)[n]))
          => result.ok /\ result.val = target_service_config

\* C29: a mapping whose key is written as a token unknown to the context was
\* returned with that key and a rewritten value
C29_TokenInKeyLeftAlone ==
    /\ call = "substitute_placeholders" /\ pc = "done" /\ result.ok
    /\ Len(target_service_config.v) = 3
    /\ result.val.v[3].k = "{{zz}}"
    /\ Resolves(records_context, <<"zz">>) = FALSE
    /\ result.val.v[3].val # target_service_config.v[3].val


(***************************************************************************)
(* A mapping with `$ref` and other keys                                    *)
(***************************************************************************)
\* the reference nodes of a tree that have keys besides `$ref`
RECURSIVE RefsWithSiblings(_)
RefsWithSiblings(tree) ==
    CASE tree.t = "map" ->
            (IF HasKeyP(tree.v, REF_KEY) /\ Len(tree.v) > 1 THEN {tree} ELSE {})
            \cup UNION {RefsWithSiblings(tree.v[n].val) : n \in 1..Len(tree.v)}
      [] tree.t = "seq" -> UNION {RefsWithSiblings(tree.v[n]) : n \in 1..Len(tree.v)}
      [] OTHER -> {}
SiblingKeys ==
    UNION {KeysP(node.v) \ {REF_KEY} :
              node \in UNION {RefsWithSiblings(FileOf(MapGet(path))) :
                                 path \in KeysP(merged_config_map)}}
GonePath == <<"gone.yaml">>
GoneRef == <<"gone.yaml", "#", "/", "x">>

\* C30: a mapping with a `$ref` key and other keys is expanded as a reference:
\* a tree returned is the base document with every mapping that has a `$ref`
\* key replaced by what the reference designates, no key written beside a
\* `$ref` is in it, and no call fails over a sibling (the file that only a
\* sibling refers to is never looked for).
C30_RefWithSiblingsReplacedWhole ==
    ResolveFinished =>
        /\ result.ok =>
              /\ result.val = ExpandDesignated(FileOf(MapGet(main_config_file)),
                                               main_config_file, {})
              /\ \A key \in SiblingKeys : ~ContainsKey(result.val, key)
        /\ (~result.ok /\ result.why = "file_not_in_map") => result.info.path # GonePath
        /\ \A ref_key \in visited_refs : ref_key[2] # GoneRef

\* C30: a.yaml's y, a `$ref` to b/c.yaml#/z with a sibling key, was expanded
\* and the tree returned has what b/c.yaml's z holds in its place
C30_SiblingDropped ==
    /\ call = "resolve_refs" /\ pc = "done" /\ result.ok
    /\ main_config_file = PathA
    /\ Len(FileOf(MapGet(PathA)).v[2].val.v) = 2
    /\ result.val.v[2].val = Num("2")

=============================================================================
